---- MODULE Spec2Model ----
(***************************************************************************)
(* DeepTrace: the concurrent, depth-bounded page inspector                 *)
(* (src/deeptrace/inspector.js, lines 1-373) and the run store it writes   *)
(* to (same file, lines 375-671).                                          *)
(*                                                                         *)
(* Both halves run on Node's single-threaded event loop: code between two  *)
(* awaits runs without interruption, so one action of this module is one   *)
(* such run-to-completion stretch (a call up to its first suspension, or   *)
(* the continuation of one completed I/O operation or timer up to the next *)
(* suspension).                                                            *)
(*                                                                         *)
(*   Spec          one inspectQuestion session                             *)
(*   StoreSpec     the run store driven by arbitrary callers               *)
(*   StoreFairSpec StoreSpec with the event loop's fairness                *)
(***************************************************************************)
EXTENDS Integers, Sequences, FiniteSets, TLC

(***************************************************************************)
(* Bounds of the model.                                                    *)
(***************************************************************************)
\* how many seed URLs a session is started with, at most
MaxSeeds == 5
\* how many save calls (page or synthesis) the store's callers issue, at most
MaxSaves == 3
\* how many times flush is invoked, at most
MaxFlush == 2

(***************************************************************************)
(* Program constants.                                                      *)
(***************************************************************************)
MAX_CONCURRENT == 3
MAX_EXPANDED_URLS == 25

(***************************************************************************)
(* URLs.  A URL string is modelled by its parts: whether `new URL` parses  *)
(* it, the page it names, the number of slashes that end its path, the     *)
(* keys of its query parameters in order, and whether it has a fragment.   *)
(* Two records are equal exactly when the strings are.                     *)
(***************************************************************************)
Url(ok, page, slashes, query, frag) ==
  [ok |-> ok, page |-> page, slashes |-> slashes, query |-> query, frag |-> frag]

\* the keys normalizeUrl drops: prefix utm_, exactly ref, exactly fbclid
IsTracking(key) == key \in {"utm_source", "utm_medium", "ref", "fbclid"}

\* the order Array.prototype.sort gives the model's keys
KeyRank(key) ==
  CASE key = "a" -> 1
    [] key = "b" -> 2
    [] key = "fbclid" -> 3
    [] key = "ref" -> 4
    [] key = "utm_medium" -> 5
    [] key = "utm_source" -> 6
    [] OTHER -> 7

RECURSIVE FilterQuery(_)
FilterQuery(q) ==
  IF q = <<>> THEN <<>>
  ELSE IF IsTracking(Head(q)) THEN FilterQuery(Tail(q))
       ELSE <<Head(q)>> \o FilterQuery(Tail(q))

RECURSIVE InsertSorted(_, _)
InsertSorted(k, q) ==
  IF q = <<>> THEN <<k>>
  ELSE IF KeyRank(k) < KeyRank(Head(q)) THEN <<k>> \o q
       ELSE <<Head(q)>> \o InsertSorted(k, Tail(q))

RECURSIVE SortQuery(_)
SortQuery(q) ==
  IF q = <<>> THEN <<>> ELSE InsertSorted(Head(q), SortQuery(Tail(q)))

\* normalizeUrl: an unparseable string is returned unchanged; otherwise the
\* fragment is cleared, the query filtered and sorted, and the regular
\* expression /\/$/ removes one slash when the string ends with one, which it
\* does only if nothing (no query) follows the path.
normalizeUrl(u) ==
  IF ~u.ok THEN u
  ELSE LET q == SortQuery(FilterQuery(u.query))
       IN  [u EXCEPT !.frag = FALSE,
                     !.query = q,
                     !.slashes = IF q = <<>> /\ u.slashes > 0
                                 THEN u.slashes - 1 ELSE u.slashes]

\* the URLs of the model
U1   == Url(TRUE, "p1", 0, <<>>, FALSE)
U1s  == Url(TRUE, "p1", 1, <<>>, FALSE)
U2   == Url(TRUE, "p2", 0, <<>>, FALSE)
U2t  == Url(TRUE, "p2", 0, <<"utm_source">>, TRUE)
U3   == Url(TRUE, "p3", 0, <<"b", "a">>, FALSE)
U3r  == Url(TRUE, "p3", 0, <<"a", "ref", "b">>, FALSE)
U4   == Url(TRUE, "p4", 0, <<>>, FALSE)
U5   == Url(TRUE, "p5", 0, <<>>, FALSE)
U6   == Url(TRUE, "p6", 0, <<>>, FALSE)
U7   == Url(TRUE, "p7", 0, <<>>, FALSE)
UBad == Url(FALSE, "not a url", 0, <<>>, FALSE)

\* the seed lists a session is started with: the prefixes of this list
SeedOrder == <<U1, U2, U1s, U3, U4, U2t, UBad, U5, U6>>

\* what a fetched page's same-domain links can be
LinkChoices == { <<>>, <<U5, U3r, U5>>, <<U6, U1, U2>> }

\* pages that each link to one page no other page links to
OwnLinkChoices == { <<U5>>, <<U6>>, <<U7>> }

\* a page with 40 same-domain links, all different, none of them a seed
WidePages ==
  <<"w01", "w02", "w03", "w04", "w05", "w06", "w07", "w08", "w09",
    "w10", "w11", "w12", "w13", "w14", "w15", "w16", "w17", "w18",
    "w19", "w20", "w21", "w22", "w23", "w24", "w25", "w26", "w27",
    "w28", "w29", "w30", "w31", "w32", "w33", "w34", "w35", "w36",
    "w37", "w38", "w39", "w40">>
WideLinks == [i \in 1..Len(WidePages) |-> Url(TRUE, WidePages[i], 0, <<>>, FALSE)]

\* the same page with a link to the first seed in front and one link twice
WideLinksAndSeed == <<U1, WideLinks[1]>> \o WideLinks

WideLinkChoices == {WideLinks, WideLinksAndSeed}

\* every URL of the model, and the normalized forms the visited set can hold
AllUrls == {SeedOrder[i] : i \in 1..Len(SeedOrder)}
             \cup UNION {{l[i] : i \in 1..Len(l)} : l \in LinkChoices \cup OwnLinkChoices \cup WideLinkChoices}
NormUrls == {normalizeUrl(u) : u \in AllUrls}

(***************************************************************************)
(* State.                                                                  *)
(***************************************************************************)
VARIABLES
  \* ---- one inspectQuestion session (inspector.js 297-369) ----
  started,        \* inspectQuestion has been called
  seedUrls,       \* its seedUrls argument
  stopFlag,       \* what the caller's shouldStopFn() returns
  aborted,        \* the closure variable `aborted`
  visitedUrls,    \* the closure variable `visitedUrls`
  semaphore,      \* the session's Semaphore: [max, current, queue]
  tasks,          \* the processUrl calls that claimed a URL, in claim order
  pageCount,      \* the closure variable `pageCount`
  progressCalls,  \* how often onPageCountUpdate was called
  claimCount,     \* history: visitedUrls.add calls per normalized URL
  fetchCount,     \* history: inspectPage calls per normalized URL
  grantOrder,     \* history: the tasks in the order their acquire() resolved
  wiring,         \* what the caller passed as shouldStopFn, onPageCountUpdate
  rejected,       \* the promise inspectQuestion returned has rejected
  \* ---- the run that calls the sessions (src/cli.js) ----
  pagesVisited,   \* stats.pagesVisited
  sessions,       \* history: inspectQuestion calls of the run
  totalCounted    \* history: pageCount++ executions of the run

sessionVars == <<started, seedUrls, stopFlag, aborted, visitedUrls, semaphore,
                 tasks, pageCount, progressCalls, claimCount, fetchCount,
                 grantOrder, wiring, rejected, pagesVisited, sessions,
                 totalCounted>>

(***************************************************************************)
(* Semaphore (inspector.js 38-61).  The queue holds the ids of the tasks   *)
(* whose acquire() promise is pending, oldest first.                       *)
(***************************************************************************)
NewSemaphore(max) == [max |-> max, current |-> 0, queue |-> <<>>]

\* (mutant) an off-by-one in the test of line 46
SemHasSlotOffByOne(sem) == sem.current <= sem.max

\* acquire() finds a free slot
SemHasSlot(sem) == sem.current < sem.max

\* (mutant) line 50 with unshift in the place of push
SemAcquireFront(sem, id) ==
  IF SemHasSlot(sem) THEN [sem EXCEPT !.current = @ + 1]
  ELSE [sem EXCEPT !.queue = <<id>> \o @]

\* acquire() by task id: take a slot, or join the queue
SemAcquire(sem, id) ==
  IF SemHasSlot(sem) THEN [sem EXCEPT !.current = @ + 1]
  ELSE [sem EXCEPT !.queue = Append(@, id)]

\* (mutant) release() without the current++ of line 56
SemReleaseNoHandOver(sem) ==
  IF sem.queue # <<>>
  THEN [sem EXCEPT !.current = @ - 1, !.queue = Tail(@)]
  ELSE [sem EXCEPT !.current = @ - 1]

\* release(): give the slot back, and hand it to the first waiter if any
SemRelease(sem) ==
  IF sem.queue # <<>>
  THEN [sem EXCEPT !.current = (@ - 1) + 1, !.queue = Tail(@)]
  ELSE [sem EXCEPT !.current = @ - 1]

\* (mutant) release() without lines 55-59
SemWokenNobody(sem) == 0

\* the task release() wakes (0: nobody)
SemWoken(sem) == IF sem.queue # <<>> THEN Head(sem.queue) ELSE 0

(***************************************************************************)
(* inspectPage (inspector.js 276-295).  What fetchWithTimeout and          *)
(* extractTextAndLinks produce is an input: the way the fetch ended and,   *)
(* for a delivered body, the length of the extracted text.                 *)
(***************************************************************************)
MIN_TEXT_LENGTH == 200

Res(kind, textLen) == [kind |-> kind, textLen |-> textLen]

NoResult  == Res("none", 0)
Timeout   == Res("timeout", 0)      \* reject(new Error('Timeout')), line 110
FetchErr  == Res("error", 0)        \* any other rejection but 'Aborted'
Aborted   == Res("aborted", 0)      \* reject(new Error('Aborted')), line 186
ShortBody == Res("body", MIN_TEXT_LENGTH - 1)
GoodBody  == Res("body", MIN_TEXT_LENGTH)

\* every way a fetch can end
FetchResults == {Timeout, FetchErr, Aborted, ShortBody, GoodBody}

\* the ways the sessions of the store and capacity properties use
SessionResults == {FetchErr, Aborted, GoodBody}

\* (mutant) the test of line 281 left out
TextTooShortNever(len) == FALSE

\* line 281
TextTooShort(len) == len < MIN_TEXT_LENGTH

\* inspectPage: null on a rejected fetch (292-294) or a short text (281-283)
inspectPage(res) ==
  IF res.kind = "body" /\ ~TextTooShort(res.textLen) THEN "result" ELSE "null"

(***************************************************************************)
(* The caller's arguments.  wiring says what inspectQuestion received as   *)
(* shouldStopFn and onPageCountUpdate:                                     *)
(*   "plain"  a predicate that reads the caller's stop flag, and a         *)
(*            callback that only counts its calls                          *)
(*   "run"    () => !shouldContinue() and n => reportProgress(n), the      *)
(*            functions of src/cli.js 105-125                              *)
(*   "cli"    the arguments of the call in src/cli.js 313-319 and 335-341: *)
(*            (question, input.urls, researchContext, cancellationToken,   *)
(*            {...}), so that shouldStopFn is the researchContext object   *)
(* stopFlag is the caller's stop flag; under "run" and "cli" it is         *)
(* cancellationToken.cancelled.                                            *)
(***************************************************************************)
\* researchContext.maxPages (src/cli.js 27 has 200)
MaxPages == 2

\* the sessions a run starts one after the other (src/cli.js 307-346)
MaxSessions == 2

\* shouldContinue() of src/cli.js 105-117; when it returns FALSE the token
\* is cancelled afterwards
shouldContinue(cancelled, visited) == ~cancelled /\ visited < MaxPages

\* the value of shouldStopFn() at line 307
shouldStopFn(w, cancelled, visited) ==
  IF w = "run" THEN ~shouldContinue(cancelled, visited) ELSE cancelled

\* line 307 throws a TypeError: shouldStopFn is not a function
StopFnThrows(w) == w = "cli"

\* stats.pagesVisited after onPageCountUpdate(count): reportProgress of
\* src/cli.js 120-125 assigns its argument
reportProgress(w, visited, count) == IF w = "run" THEN count ELSE visited

(***************************************************************************)
(* processUrl (inspector.js 315-365).  A session's mutable state is        *)
(* gathered in a record so that the synchronous part of several            *)
(* processUrl calls (seedUrls.map, expandedUrls.map) can be folded.        *)
(*   task.pc: "acquire"  waiting in semaphore.queue                        *)
(*            "granted"  acquire() resolved, line 328 not yet run          *)
(*            "delay"    in randomDelay()                                  *)
(*            "fetch"    in inspectPage()                                  *)
(*            "expand"   in Promise.all(expandTasks), slot still held      *)
(*            "done"     returned                                          *)
(***************************************************************************)
Sess == [visited |-> visitedUrls, sem |-> semaphore, tasks |-> tasks,
         aborted |-> aborted, claims |-> claimCount, grants |-> grantOrder]

\* (mutant) shouldAbort() that never reports cancellation
shouldAbortNever(isAborted, stop) == FALSE

\* shouldAbort() (305-313): latches `aborted`
shouldAbort(isAborted, stop) == isAborted \/ stop

\* (mutant) the test of line 321 left out
AlreadyVisitedNever(visited, n) == FALSE

\* lines 321-323: the URL is already claimed
AlreadyVisited(visited, n) == n \in visited

\* lines 316-326 of one processUrl(url, depth) call made by task `parent`
ClaimUrl(s, url, depth, parent, stop) ==
  IF shouldAbort(s.aborted, stop) THEN [s EXCEPT !.aborted = TRUE]
  ELSE LET n == normalizeUrl(url)
       IN  IF AlreadyVisited(s.visited, n) THEN s
           ELSE LET id == Len(s.tasks) + 1
                IN  [s EXCEPT
                       !.visited = @ \cup {n},
                       !.claims = [@ EXCEPT ![n] = @ + 1],
                       !.sem = SemAcquire(@, id),
                       !.grants = IF SemHasSlot(s.sem) THEN Append(@, id) ELSE @,
                       !.tasks = Append(@,
                          [url |-> url, depth |-> depth, parent |-> parent,
                           pc |-> IF SemHasSlot(s.sem) THEN "granted" ELSE "acquire",
                           outcome |-> "none", fetched |-> NoResult])]

\* urls.map(u => processUrl(u, depth)): the calls run one after the other,
\* each up to its first await
RECURSIVE ClaimAll(_, _, _, _, _)
ClaimAll(s, urls, depth, parent, stop) ==
  IF urls = <<>> THEN s
  ELSE ClaimAll(ClaimUrl(s, Head(urls), depth, parent, stop),
                Tail(urls), depth, parent, stop)

\* semaphore.release() by a finishing task, which ends with `outcome`
Finish(s, t, outcome) ==
  LET w == SemWoken(s.sem)
  IN  [s EXCEPT
         !.sem = SemRelease(@),
         !.grants = IF w # 0 THEN Append(@, w) ELSE @,
         !.tasks = [i \in 1..Len(@) |->
                      IF i = t THEN [@[i] EXCEPT !.pc = "done", !.outcome = outcome]
                      ELSE IF i = w THEN [@[i] EXCEPT !.pc = "granted"]
                      ELSE @[i]]]

\* (mutant) line 350 with > in the place of >=
RECURSIVE SelectExpandedOneMore(_, _, _)
SelectExpandedOneMore(links, visited, expandedUrls) ==
  IF links = <<>> \/ Len(expandedUrls) > MAX_EXPANDED_URLS THEN expandedUrls
  ELSE SelectExpandedOneMore(Tail(links), visited,
         IF normalizeUrl(Head(links)) \notin visited
         THEN Append(expandedUrls, Head(links)) ELSE expandedUrls)

\* lines 347-356: the links to expand
RECURSIVE SelectExpanded(_, _, _)
SelectExpanded(links, visited, expandedUrls) ==
  IF links = <<>> \/ Len(expandedUrls) >= MAX_EXPANDED_URLS THEN expandedUrls
  ELSE SelectExpanded(Tail(links), visited,
         IF normalizeUrl(Head(links)) \notin visited
         THEN Append(expandedUrls, Head(links)) ELSE expandedUrls)

Children(tk, t) == {i \in 1..Len(tk) : tk[i].parent = t}
ChildrenDone(tk, t) == \A i \in Children(tk, t) : tk[i].pc = "done"

SetSess(s) ==
  /\ visitedUrls' = s.visited
  /\ semaphore' = s.sem
  /\ tasks' = s.tasks
  /\ aborted' = s.aborted
  /\ claimCount' = s.claims
  /\ grantOrder' = s.grants

(***************************************************************************)
(* The run store (inspector.js 375-671) and its files.                     *)
(***************************************************************************)
VARIABLES
  \* ---- module state (380-385) ----
  currentRunPath,     \* TRUE: set to the run directory, FALSE: null
  metaData,           \* NoMeta (null) or [kind, status, pageCount]
  isFlushing,
  shutdownRequested,
  writeQueue,         \* the queued tasks [type, id], oldest first
  processingQueue,
  \* ---- the run directory ----
  disk,               \* file name -> content
  \* ---- the calls in progress ----
  initPc,             \* where the initialize call stands
  init2Pc,            \* where a second initialize call stands
  pqPc,               \* where the processQueue loop stands
  pqTask,             \* the task the loop has shifted off the queue
  flushPc,            \* where the running flush body stands
  aw,                 \* the atomicWrite call in progress, per calling function
  saves,              \* per save call: its type and what its promise resolved to
  sqt,                \* the saveQuestionTree call: "none" (not made), "pending",
                      \* or what it returned, "true" / "false"
  flushCalls,         \* flush() calls made so far
  crashed,            \* the process was killed
  \* ---- history ----
  appended,           \* appendFile calls that succeeded
  metaWrites,         \* <<pageCount written, appended then>> per write of meta
  flushDone,          \* flush bodies that ran to their end
  flushSaw,           \* the save calls that had resolved with true when the
                      \* last flush body began
  resolveOrder,       \* the ids of the queued tasks in the order of task.resolve
  metaOrder,          \* the ids of the tasks in the order they changed metaData
  processing,         \* the tasks shifted off the queue and not yet resolved
  failedWrites,       \* the tasks one of whose atomicWrite calls returned false
  flushBodies         \* the flush bodies (604-644) that are running

storeVars == <<currentRunPath, metaData, isFlushing, shutdownRequested, writeQueue,
               processingQueue, disk, initPc, init2Pc, pqPc, pqTask, flushPc, aw,
               saves, sqt,
               flushCalls, crashed, appended, metaWrites, flushDone, flushSaw,
               resolveOrder, metaOrder, processing, failedWrites, flushBodies>>

(***************************************************************************)
(* One normalizeUrl call chain and one fetchWithTimeout call, looked at on *)
(* their own.                                                              *)
(***************************************************************************)
VARIABLES
  norm,           \* a URL string followed by the results of normalizing it
                  \* once, twice, ...
  fetch,          \* one fetchWithTimeout call (inspector.js 98-190)
  pair,           \* two URL strings, followed by their normalized forms
  cli             \* the command-line process (src/cli.js): its module
                  \* variables and where main and gracefulShutdown stand

sideVars == <<norm, fetch, pair, cli>>

vars == <<sessionVars, storeVars, sideVars>>

\* `fs` is require('fs').promises (line 375), which has no member fsync: the
\* call fs.fsync(...) of line 397 raises a TypeError once its argument, the
\* fs.open, has been evaluated.
FsyncIsFunction == FALSE

Files == {"meta.json", "questions.json", "pages.jsonl", "final.json"}
TmpFiles == {"meta.json.tmp", "questions.json.tmp", "final.json.tmp"}
\* line 390
TmpPath(filePath) ==
  CASE filePath = "meta.json" -> "meta.json.tmp"
    [] filePath = "questions.json" -> "questions.json.tmp"
    [] filePath = "final.json" -> "final.json.tmp"

\* file contents
Absent == [kind |-> "absent"]
JsonNull == [kind |-> "null"]
JsonEmptyArray == [kind |-> "array"]
JsonTree == [kind |-> "tree"]
JsonMeta(status, count) == [kind |-> "meta", status |-> status, pageCount |-> count]
JsonFinal(id) == [kind |-> "object", id |-> id]
Lines(l) == [kind |-> "lines", lines |-> l]

NoMeta == JsonNull
NoFrame == [pc |-> "none"]
NoTask == [type |-> "none", id |-> 0]
Owners == {"initialize", "initialize2", "saveQuestionTree", "processQueue", "flush"}
\* the entry of failedWrites that stands for the saveQuestionTree call
QuestionTreeId == 0
SaveIds == 1..MaxSaves

\* the store's state as one value, so that a continuation can be composed
\* with the step that resumes it
Store ==
  [currentRunPath |-> currentRunPath, metaData |-> metaData,
   isFlushing |-> isFlushing, shutdownRequested |-> shutdownRequested,
   writeQueue |-> writeQueue, processingQueue |-> processingQueue,
   disk |-> disk, initPc |-> initPc, init2Pc |-> init2Pc, pqPc |-> pqPc,
   pqTask |-> pqTask,
   flushPc |-> flushPc, aw |-> aw, saves |-> saves, sqt |-> sqt,
   appended |-> appended,
   metaWrites |-> metaWrites, flushDone |-> flushDone, flushSaw |-> flushSaw,
   resolveOrder |-> resolveOrder, metaOrder |-> metaOrder,
   processing |-> processing, failedWrites |-> failedWrites,
   flushBodies |-> flushBodies]

\* the store's variables take the values of `next`, which is evaluated once
SetStore(next) ==
  \E st \in {next} :
    /\ currentRunPath' = st.currentRunPath
    /\ metaData' = st.metaData
    /\ isFlushing' = st.isFlushing
    /\ shutdownRequested' = st.shutdownRequested
    /\ writeQueue' = st.writeQueue
    /\ processingQueue' = st.processingQueue
    /\ disk' = st.disk
    /\ initPc' = st.initPc
    /\ init2Pc' = st.init2Pc
    /\ pqPc' = st.pqPc
    /\ pqTask' = st.pqTask
    /\ flushPc' = st.flushPc
    /\ aw' = st.aw
    /\ saves' = st.saves
    /\ sqt' = st.sqt
    /\ appended' = st.appended
    /\ metaWrites' = st.metaWrites
    /\ flushDone' = st.flushDone
    /\ flushSaw' = st.flushSaw
    /\ resolveOrder' = st.resolveOrder
    /\ metaOrder' = st.metaOrder
    /\ processing' = st.processing
    /\ failedWrites' = st.failedWrites
    /\ flushBodies' = st.flushBodies

(***************************************************************************)
(* atomicWrite (387-417).  A call that passes the check of line 388 runs   *)
(* in the steps                                                            *)
(*   "mkdir"   fs.mkdir pending; then the data is serialized (395)         *)
(*   "write"   fs.writeFile(tmpPath) pending                               *)
(*   "fsync"   fs.open(tmpPath) pending; then fs.fsync is called           *)
(*   "rename"  fs.rename(tmpPath, filePath) pending                        *)
(*   "sync"    open/sync/close of filePath pending; then `return true`     *)
(*   "unlink"  (catch) fs.unlink(tmpPath) pending; then `return false`     *)
(* `byRef` says that the caller passed the live metaData object (464, 491) *)
(* and not a copy of it: it is serialized as it is at line 395.            *)
(***************************************************************************)
\* line 388
AtomicWriteRefused(st) == st.shutdownRequested

\* lines 390-393: the call up to its first await
AtomicWriteBegin(st, owner, filePath, data, byRef) ==
  [st EXCEPT !.aw[owner] =
     [pc |-> "mkdir", filePath |-> filePath, data |-> data, byRef |-> byRef,
      pre |-> st.disk[filePath]]]

\* line 395
Serialized(st, f) == IF f.byRef THEN st.metaData ELSE f.data

\* (mutant) the data written straight to the target file
WriteDestinationInPlace(f) == f.filePath

\* line 396: where writeFile puts the serialized data
WriteDestination(f) == TmpPath(f.filePath)

\* one completed fs operation of owner's atomicWrite.  Line 397 throws
\* whatever the file system does, so every call ends in the catch of 409;
\* failures of mkdir, writeFile or open lead there too and are not
\* modelled apart.  The result has aw[owner].pc = "return" when the call is
\* over, with the value returned in aw[owner].result.
AtomicWriteStep(st, owner) ==
  LET f == st.aw[owner]
      fail == [st EXCEPT !.aw[owner].pc = "unlink"]
  IN  CASE f.pc = "mkdir" ->
             [st EXCEPT !.aw[owner].pc = "write",
                        !.aw[owner].data = Serialized(st, f)]
        [] f.pc = "write" ->
             [st EXCEPT !.aw[owner].pc = "fsync",
                        !.disk[WriteDestination(f)] = f.data,
                        !.metaWrites =
                           IF f.filePath = "meta.json"
                           THEN @ \cup {<<f.data.pageCount, st.appended>>}
                           ELSE @]
        [] f.pc = "fsync" ->
             IF FsyncIsFunction
             THEN [st EXCEPT !.aw[owner].pc = "rename"]
             ELSE fail
        [] f.pc = "rename" ->
             IF st.disk[TmpPath(f.filePath)] # Absent
             THEN [st EXCEPT !.aw[owner].pc = "sync",
                             !.disk[f.filePath] = st.disk[TmpPath(f.filePath)],
                             !.disk[TmpPath(f.filePath)] = Absent]
             ELSE fail
        [] f.pc = "sync" ->
             [st EXCEPT !.aw[owner] = [pc |-> "return", result |-> TRUE]]
        [] f.pc = "unlink" ->
             [st EXCEPT !.aw[owner] = [pc |-> "return", result |-> FALSE],
                        !.disk[TmpPath(f.filePath)] = Absent,
                        !.failedWrites =
                           CASE owner = "processQueue" -> @ \cup {st.pqTask.id}
                             [] owner = "saveQuestionTree" -> @ \cup {QuestionTreeId}
                             [] OTHER -> @]

(***************************************************************************)
(* processQueue (555-599).                                                 *)
(*   pqPc: "idle"       no loop is running                                 *)
(*         "append"     fs.appendFile of a page task pending (569)         *)
(*         "pageMeta"   atomicWrite(meta) of a page task in progress (575) *)
(*         "final"      atomicWrite(final) in progress (581)               *)
(*         "finalMeta"  atomicWrite(meta) of a final task in progress (587)*)
(***************************************************************************)
RECURSIVE PqLoop(_)
\* (mutant) the loop left when a task has failed
PqFinishTaskStopsOnFailure(st, r) ==
  IF r = "false"
  THEN [st EXCEPT !.saves[st.pqTask.id].result = r, !.pqTask = NoTask,
                  !.resolveOrder = Append(@, st.pqTask.id),
                  !.processing = @ \ {st.pqTask.id},
                  !.processingQueue = FALSE, !.pqPc = "idle"]
  ELSE PqLoop([st EXCEPT !.saves[st.pqTask.id].result = r, !.pqTask = NoTask,
                         !.resolveOrder = Append(@, st.pqTask.id),
                         !.processing = @ \ {st.pqTask.id}])

\* lines 577, 591, 594: task.resolve(r) and the end of the loop body
PqFinishTask(st, r) ==
  PqLoop([st EXCEPT !.saves[st.pqTask.id].result = r, !.pqTask = NoTask,
                    !.resolveOrder = Append(@, st.pqTask.id),
                    !.processing = @ \ {st.pqTask.id}])

\* (mutant) the youngest task taken (pop) in place of the oldest
ShiftLast(q) == [task |-> q[Len(q)], rest |-> SubSeq(q, 1, Len(q) - 1)]

\* line 563: writeQueue.shift()
Shift(q) == [task |-> Head(q), rest |-> Tail(q)]

\* lines 562-598 from the loop condition to the next await.  With
\* currentRunPath null, path.join (567, 580) throws and the catch resolves
\* the task with false.
PqLoop(st) ==
  IF st.writeQueue = <<>> \/ st.shutdownRequested
  THEN [st EXCEPT !.processingQueue = FALSE, !.pqPc = "idle", !.pqTask = NoTask]
  ELSE LET task == Shift(st.writeQueue).task
           s1 == [st EXCEPT !.writeQueue = Shift(@).rest, !.pqTask = task,
                            !.processing = @ \cup {task.id}]
       IN  IF ~s1.currentRunPath THEN PqFinishTask(s1, "false")
           ELSE IF task.type = "page" THEN [s1 EXCEPT !.pqPc = "append"]
           ELSE [AtomicWriteBegin(s1, "processQueue", "final.json",
                                  JsonFinal(task.id), FALSE)
                   EXCEPT !.pqPc = "final"]

\* (mutant) the test of processingQueue left out of line 556
PqBusyNever(st) == FALSE

\* line 556, first operand: a loop is already running
PqBusy(st) == st.processingQueue

\* lines 556-560: a call of processQueue()
ProcessQueue(st) ==
  IF PqBusy(st) \/ st.writeQueue = <<>> \/ st.shutdownRequested THEN st
  ELSE PqLoop([st EXCEPT !.processingQueue = TRUE])

\* line 388 answered the task's atomicWrite call with false
PqWriteRefused(st) == [st EXCEPT !.failedWrites = @ \cup {st.pqTask.id}]

\* (mutant) line 572 adding 2
IncrementPageCountTwice(st) ==
  [st EXCEPT !.metaData.pageCount = @ + 2,
             !.metaOrder = Append(@, st.pqTask.id)]

\* line 572
IncrementPageCount(st) ==
  [st EXCEPT !.metaData.pageCount = @ + 1,
             !.metaOrder = Append(@, st.pqTask.id)]

\* line 569 succeeded: the line is in the page log
PqAppended(st) ==
  [st EXCEPT !.disk["pages.jsonl"] =
                Lines(IF @ = Absent THEN <<st.pqTask.id>>
                      ELSE Append(@.lines, st.pqTask.id)),
             !.appended = @ + 1]

\* lines 571-578
PqCountPage(st) ==
  IF st.metaData = NoMeta THEN PqFinishTask(st, "true")
  ELSE LET s1 == IncrementPageCount(st)
       IN  IF AtomicWriteRefused(s1) THEN PqFinishTask(PqWriteRefused(s1), "true")
           ELSE [AtomicWriteBegin(s1, "processQueue", "meta.json", s1.metaData, FALSE)
                   EXCEPT !.pqPc = "pageMeta"]

\* (mutant) the page counted although appendFile failed
PqAppendDoneCountsFailure(st, ok) ==
  PqCountPage(IF ok THEN PqAppended(st) ELSE st)

\* lines 569-578 and 592-595 once fs.appendFile has completed; ok: it
\* succeeded (otherwise it threw into the catch)
PqAppendDone(st, ok) ==
  IF ~ok THEN PqFinishTask(st, "false") ELSE PqCountPage(PqAppended(st))

\* lines 583-584
MarkCompleted(st) ==
  [st EXCEPT !.metaData.status = "completed",
             !.metaOrder = Append(@, st.pqTask.id)]

\* the loop after an atomicWrite it awaited has returned; its result is
\* not looked at (575, 581, 587)
PqAfterWrite(st) ==
  IF st.pqPc = "final" /\ st.metaData # NoMeta
  THEN LET s1 == MarkCompleted(st)
       IN  IF AtomicWriteRefused(s1) THEN PqFinishTask(PqWriteRefused(s1), "true")
           ELSE [AtomicWriteBegin(s1, "processQueue", "meta.json",
                                  s1.metaData, FALSE)
                   EXCEPT !.pqPc = "finalMeta"]
  ELSE PqFinishTask(st, "true")

(***************************************************************************)
(* initialize (434-500), called on a fresh run directory.                  *)
(*   initPc: "new"  not called yet                                         *)
(*           "mkdir"  the mkdir/access/mkdir of 440-450 pending            *)
(*           "meta1"  atomicWrite(meta) of 464 in progress                 *)
(*           "accessQuestions", "questions"   468, 470                     *)
(*           "accessPages", "writePages"      475, 477                     *)
(*           "accessFinal", "final"           482, 484                     *)
(*           "readMeta", "meta2"              488, 491                     *)
(*           "done"  returned;  "failed"  returned through the catch (495) *)
(*           "noop"  returned at line 436                                  *)
(***************************************************************************)
\* lines 435-440: a call of initialize() up to its first await
InitializeCall(st) ==
  IF st.currentRunPath THEN [st EXCEPT !.initPc = "noop"]
  ELSE [st EXCEPT !.initPc = "mkdir"]

\* lines 454, 498: the variable metaData is bound to another value.  An
\* atomicWrite call that was given the object bound until now (464, 491)
\* and has not serialized it yet keeps that object, which nothing changes
\* any more.
RebindMeta(st, m) ==
  [st EXCEPT !.metaData = m,
             !.aw = [o \in Owners |->
                       IF st.aw[o].pc = "mkdir" /\ st.aw[o].byRef
                       THEN [st.aw[o] EXCEPT !.data = st.metaData, !.byRef = FALSE]
                       ELSE st.aw[o]]]

\* (mutant) line 497 left out
InitCatchKeepsPath(st) == [RebindMeta(st, NoMeta) EXCEPT !.initPc = "failed"]

\* lines 495-499
InitCatch(st) ==
  [RebindMeta(st, NoMeta) EXCEPT !.currentRunPath = FALSE, !.initPc = "failed"]

\* an atomicWrite of initialize: refused at once, or begun
InitWrite(st, filePath, data, byRef, pcDuring, pcAfter) ==
  IF AtomicWriteRefused(st) THEN [st EXCEPT !.initPc = pcAfter]
  ELSE [AtomicWriteBegin(st, "initialize", filePath, data, byRef)
          EXCEPT !.initPc = pcDuring]

\* initialize after an atomicWrite it awaited has returned
InitAfterWrite(st) ==
  [st EXCEPT !.initPc = CASE @ = "meta1" -> "accessQuestions"
                          [] @ = "questions" -> "accessPages"
                          [] @ = "final" -> "readMeta"
                          [] @ = "meta2" -> "done"]

\* one completed fs operation of initialize itself; ioOk: it succeeded
InitStep(st, ioOk) ==
  CASE st.initPc = "mkdir" ->
         IF ~ioOk THEN InitCatch(st)
         ELSE InitWrite([RebindMeta(st, JsonMeta("running", 0))
                           EXCEPT !.currentRunPath = TRUE],
                        "meta.json", NoMeta, TRUE, "meta1", "accessQuestions")
    [] st.initPc = "accessQuestions" ->
         IF st.disk["questions.json"] # Absent
         THEN [st EXCEPT !.initPc = "accessPages"]
         ELSE InitWrite(st, "questions.json", JsonEmptyArray, FALSE,
                        "questions", "accessPages")
    [] st.initPc = "accessPages" ->
         [st EXCEPT !.initPc = IF st.disk["pages.jsonl"] # Absent
                               THEN "accessFinal" ELSE "writePages"]
    [] st.initPc = "writePages" ->
         IF ~ioOk THEN InitCatch(st)
         ELSE [st EXCEPT !.disk["pages.jsonl"] = Lines(<<>>),
                         !.initPc = "accessFinal"]
    [] st.initPc = "accessFinal" ->
         IF st.disk["final.json"] # Absent
         THEN [st EXCEPT !.initPc = "readMeta"]
         ELSE InitWrite(st, "final.json", JsonNull, FALSE, "final", "readMeta")
    [] st.initPc = "readMeta" ->
         IF st.disk["meta.json"] = Absent
         THEN [st EXCEPT !.initPc = "done"]
         ELSE InitWrite([st EXCEPT !.metaData.pageCount = st.disk["meta.json"].pageCount,
                                   !.metaData.status = "running"],
                        "meta.json", NoMeta, TRUE, "meta2", "done")

(***************************************************************************)
(* flush (601-645).                                                        *)
(*   flushPc: "idle"       no flush body is running                        *)
(*            "wait"       in the loop of 610-615, in one of its timers    *)
(*            "readFinal"  fs.readFile(finalPath) pending (624)            *)
(*            "meta"       atomicWrite(meta) in progress (634)             *)
(***************************************************************************)
\* lines 642-644
FlushFinally(st) ==
  [st EXCEPT !.isFlushing = FALSE, !.flushPc = "idle", !.flushDone = @ + 1,
             !.flushBodies = @ - 1]

\* line 610: the loop goes on
FlushMustWait(st) == st.writeQueue # <<>>

\* line 617 on
FlushTail(st) ==
  IF st.currentRunPath /\ st.metaData # NoMeta
  THEN [st EXCEPT !.flushPc = "readFinal"]
  ELSE FlushFinally(st)

\* (mutant) the test of line 602 left out
FlushBusyNever(st) == FALSE

\* line 602: a flush body is running
FlushBusy(st) == st.isFlushing

\* lines 602-615: a call of flush() up to its first await
FlushBegin(st) ==
  IF FlushBusy(st) THEN st
  ELSE LET s1 == [st EXCEPT !.isFlushing = TRUE, !.shutdownRequested = TRUE,
                            !.flushBodies = @ + 1,
                            !.flushSaw = {id \in SaveIds : st.saves[id].result = "true"}]
       IN  IF FlushMustWait(s1) THEN [s1 EXCEPT !.flushPc = "wait"]
           ELSE FlushTail(s1)

\* lines 610-615: the timers of one round have fired
FlushPoll(st) == IF FlushMustWait(st) THEN st ELSE FlushTail(st)

\* lines 624-629
HasFinal(st) == st.disk["final.json"] \notin {Absent, JsonNull}

\* lines 624-638 once fs.readFile has completed.  With metaData null, line
\* 631 throws into the catch of 636.
FlushReadDone(st) ==
  IF st.metaData # NoMeta /\ ~HasFinal(st) /\ st.metaData.status = "running"
  THEN LET s1 == [st EXCEPT !.metaData.status = "interrupted"]
       IN  IF AtomicWriteRefused(s1) THEN FlushFinally(s1)
           ELSE [AtomicWriteBegin(s1, "flush", "meta.json", s1.metaData, FALSE)
                   EXCEPT !.flushPc = "meta"]
  ELSE FlushFinally(st)

(***************************************************************************)
(* saveQuestionTree (502-515), called with an array.                       *)
(***************************************************************************)
\* line 510: the result of atomicWrite is not looked at
SqtAfterWrite(st) == [st EXCEPT !.sqt = "true"]

\* lines 503-510: the call up to its first await
SaveQuestionTreeCall(st) ==
  IF ~st.currentRunPath THEN [st EXCEPT !.sqt = "false"]
  ELSE IF AtomicWriteRefused(st)
       THEN SqtAfterWrite([st EXCEPT !.failedWrites = @ \cup {QuestionTreeId}])
       ELSE [AtomicWriteBegin(st, "saveQuestionTree", "questions.json",
                              JsonTree, FALSE)
               EXCEPT !.sqt = "pending"]

\* a second initialize call runs the same code with its own position and
\* its own atomicWrite calls: the two calls' parts of the state change
\* places, so that the definitions above apply to the second call
SwapInit(st) ==
  [st EXCEPT !.initPc = st.init2Pc, !.init2Pc = st.initPc,
             !.aw = [@ EXCEPT !["initialize"] = st.aw["initialize2"],
                              !["initialize2"] = st.aw["initialize"]]]

\* what the caller of a returned atomicWrite does next
Continue(st, owner) ==
  LET s1 == [st EXCEPT !.aw[owner] = NoFrame]
  IN  CASE owner = "initialize" -> InitAfterWrite(s1)
        [] owner = "initialize2" -> SwapInit(InitAfterWrite(SwapInit(s1)))
        [] owner = "processQueue" -> PqAfterWrite(s1)
        [] owner = "saveQuestionTree" -> SqtAfterWrite(s1)
        [] owner = "flush" -> FlushFinally(s1)

\* one completed fs operation of owner's atomicWrite together with what
\* follows it without a further await: when the call returns, its caller
\* goes on in the same step
AtomicWriteAdvance(st, owner) ==
  LET s1 == AtomicWriteStep(st, owner)
  IN  IF s1.aw[owner].pc = "return" THEN Continue(s1, owner) ELSE s1

(***************************************************************************)
(* savePageResult (517-534) and saveSynthesis (536-553).                   *)
(***************************************************************************)
\* (mutant) the test of shutdownRequested (522, 541) left out
SaveRefusedIgnoresShutdown(st) == ~st.currentRunPath

\* lines 518-524, 537-543: the call returns false at once
SaveRefused(st) == ~st.currentRunPath \/ st.shutdownRequested

Save(st, id, type) ==
  IF SaveRefused(st)
  THEN [st EXCEPT !.saves[id] = [type |-> type, queued |-> FALSE, result |-> "false"]]
  ELSE ProcessQueue(
         [st EXCEPT !.saves[id] = [type |-> type, queued |-> TRUE, result |-> "pending"],
                    !.writeQueue = Append(@, [type |-> type, id |-> id])])

(***************************************************************************)
(* Initial state.                                                          *)
(***************************************************************************)
SessionInit ==
  /\ started = FALSE
  /\ seedUrls = <<>>
  /\ stopFlag = FALSE
  /\ aborted = FALSE
  /\ visitedUrls = {}
  /\ semaphore = NewSemaphore(MAX_CONCURRENT)
  /\ tasks = <<>>
  /\ pageCount = 0
  /\ progressCalls = 0
  /\ claimCount = [n \in NormUrls |-> 0]
  /\ fetchCount = [n \in NormUrls |-> 0]
  /\ grantOrder = <<>>
  /\ wiring = "plain"
  /\ rejected = FALSE
  /\ pagesVisited = 0
  /\ sessions = 0
  /\ totalCounted = 0

StoreInit ==
  /\ currentRunPath = FALSE
  /\ metaData = NoMeta
  /\ isFlushing = FALSE
  /\ shutdownRequested = FALSE
  /\ writeQueue = <<>>
  /\ processingQueue = FALSE
  /\ disk = [f \in Files \cup TmpFiles |-> Absent]
  /\ initPc = "new"
  /\ init2Pc = "new"
  /\ pqPc = "idle"
  /\ pqTask = NoTask
  /\ flushPc = "idle"
  /\ aw = [o \in Owners |-> NoFrame]
  /\ saves = [id \in SaveIds |-> [type |-> "none", queued |-> FALSE, result |-> "none"]]
  /\ sqt = "none"
  /\ flushCalls = 0
  /\ crashed = FALSE
  /\ appended = 0
  /\ metaWrites = {}
  /\ flushDone = 0
  /\ flushSaw = {}
  /\ resolveOrder = <<>>
  /\ metaOrder = <<>>
  /\ processing = {}
  /\ failedWrites = {}
  /\ flushBodies = 0

\* no fetchWithTimeout call yet
NoFetch ==
  [pc |-> "idle", err |-> "none", url |-> "a", timer |-> 0, hops |-> 0,
   size |-> 0, signal |-> FALSE]

\* src/cli.js 13-22 with main started: runResearch has been called
CliInit ==
  [cancelled |-> FALSE, activeOperations |-> 0, finalizationDone |-> FALSE,
   shutdownInProgress |-> FALSE, mainPc |-> "run", err |-> FALSE,
   fin |-> [who \in {"main", "shutdown"} |-> "none"],
   signals |-> 0, exitCode |-> -1]

SideInit ==
  /\ norm = <<>>
  /\ fetch = NoFetch
  /\ pair = <<>>
  /\ cli = CliInit

Init == SessionInit /\ StoreInit /\ SideInit

(***************************************************************************)
(* Actions of a session.                                                   *)
(***************************************************************************)
TaskIds == 1..Len(tasks)

\* the closure variables of a new inspectQuestion call (298-303)
FreshSess ==
  [visited |-> {}, sem |-> NewSemaphore(MAX_CONCURRENT), tasks |-> <<>>,
   aborted |-> FALSE, claims |-> [n \in NormUrls |-> 0], grants |-> <<>>]

\* Promise.all(seedTasks) has resolved (368)
Resolved == started /\ ~rejected /\ \A t \in TaskIds : tasks[t].pc = "done"

\* line 367 with a shouldStopFn that throws: every processUrl call rejects
\* at line 316, and so does Promise.all unless there is no seed
SeedTasksReject(w, seeds) == StopFnThrows(w) /\ seeds # <<>>

\* inspectQuestion(questionNode, seedUrls, shouldStopFn, onPageCountUpdate)
\* up to the await of line 368, the arguments being those of wiring w
StartSession(n, w) ==
  /\ started' = TRUE
  /\ wiring' = w
  /\ seedUrls' = SubSeq(SeedOrder, 1, n)
  /\ sessions' = sessions + 1
  /\ rejected' = SeedTasksReject(w, seedUrls')
  /\ IF StopFnThrows(w)
     THEN \* the catch of src/cli.js 338-343 cancels the run
          /\ SetSess(FreshSess)
          /\ stopFlag' = (stopFlag \/ rejected')
     ELSE LET stop == shouldStopFn(w, stopFlag, pagesVisited)
          IN  /\ SetSess(ClaimAll(FreshSess, seedUrls', 0, 0, stop))
              /\ stopFlag' = IF n > 0 THEN stop ELSE stopFlag
  /\ pageCount' = 0
  /\ progressCalls' = 0
  /\ fetchCount' = [u \in NormUrls |-> 0]
  /\ UNCHANGED <<pagesVisited, totalCounted>>
  /\ UNCHANGED <<storeVars, sideVars>>

\* a session whose caller passes a stop predicate and a counting callback
InspectQuestion(n) ==
  /\ ~started
  /\ StartSession(n, "plain")

\* a session of the loop of src/cli.js 307-346 when shouldContinue and
\* reportProgress are what the session calls: the first one, or the next
\* one after a session has resolved, with the same input.urls
InspectQuestionRun(n) ==
  /\ \/ ~started
     \/ wiring = "run" /\ Resolved /\ n = Len(seedUrls)
  /\ sessions < MaxSessions
  /\ shouldContinue(stopFlag, pagesVisited)
  /\ StartSession(n, "run")

\* the call of src/cli.js 313-319
InspectQuestionCli(n) ==
  /\ ~started
  /\ StartSession(n, "cli")

\* the caller's stop flag is set (it is never cleared): gracefulShutdown of
\* src/cli.js 156-180 under "run"
SignalStop ==
  /\ ~stopFlag
  /\ stopFlag' = TRUE
  /\ UNCHANGED <<started, seedUrls, aborted, visitedUrls, semaphore, tasks,
                 pageCount, progressCalls, claimCount, fetchCount, grantOrder,
                 wiring, rejected, pagesVisited, sessions, totalCounted>>
  /\ UNCHANGED <<storeVars, sideVars>>

\* what a step of a running session leaves alone
SameCall == UNCHANGED <<started, seedUrls, wiring, rejected, sessions>>
SameCount == UNCHANGED <<pageCount, progressCalls, pagesVisited, totalCounted>>

\* shouldStopFn() as the running session would now find it
Stop == shouldStopFn(wiring, stopFlag, pagesVisited)

\* the stop flag after a shouldAbort() call: shouldContinue cancels the token
\* when it finds the page limit reached; an aborted session does not ask
Observe(stop) == stopFlag' = IF aborted THEN stopFlag ELSE stop

\* (mutant) the return of line 330 without the release of line 329
ReturnWithoutRelease(s, t) ==
  [s EXCEPT !.aborted = TRUE,
            !.tasks[t].pc = "done", !.tasks[t].outcome = "cancelled"]

\* lines 328-331: cancellation seen right after acquire(); the slot is
\* released before the return, outside the try/finally of 333-364
ReleaseAndReturn(s, t) == Finish([s EXCEPT !.aborted = TRUE], t, "cancelled")

\* lines 328-334: the task has its slot
AfterAcquire(t) ==
  /\ tasks[t].pc = "granted"
  /\ IF shouldAbort(aborted, Stop)
     THEN SetSess(ReleaseAndReturn(Sess, t))
     ELSE SetSess([Sess EXCEPT !.tasks[t].pc = "delay"])
  /\ Observe(Stop)
  /\ UNCHANGED fetchCount
  /\ SameCall /\ SameCount
  /\ UNCHANGED <<storeVars, sideVars>>

\* (mutant) the test of line 336 left out
AbortAfterDelayNever(isAborted, stop) == FALSE

\* line 336
AbortAfterDelay(isAborted, stop) == shouldAbort(isAborted, stop)

\* lines 336-340: the delay is over
DelayDone(t) ==
  /\ tasks[t].pc = "delay"
  /\ IF AbortAfterDelay(aborted, Stop)
     THEN /\ SetSess(Finish([Sess EXCEPT !.aborted = TRUE], t, "cancelled"))
          /\ UNCHANGED fetchCount
     ELSE /\ SetSess([Sess EXCEPT !.tasks[t].pc = "fetch"])
          /\ fetchCount' = [fetchCount EXCEPT ![normalizeUrl(tasks[t].url)] = @ + 1]
  /\ Observe(Stop)
  /\ SameCall /\ SameCount
  /\ UNCHANGED <<storeVars, sideVars>>

\* lines 340-364 with inspectPage returning null: the fetch was rejected or
\* the text was too short.  abort() rejects every fetch in flight (182-188),
\* and an unparseable URL makes fetchWithTimeout reject at once (105).
FetchNull(t, res) ==
  /\ tasks[t].pc = "fetch"
  /\ inspectPage(res) = "null"
  /\ (res = Aborted) <=> aborted
  /\ ~tasks[t].url.ok => res \in {FetchErr, Aborted}
  /\ SetSess(Finish([Sess EXCEPT !.tasks[t].fetched = res], t,
                    IF aborted THEN "cancelled" ELSE "failure"))
  /\ UNCHANGED <<stopFlag, fetchCount>>
  /\ SameCall /\ SameCount
  /\ UNCHANGED <<storeVars, sideVars>>

\* lines 340-364 with inspectPage returning a page with these links
FetchPage(t, res, links) ==
  /\ tasks[t].pc = "fetch"
  /\ tasks[t].url.ok
  /\ ~aborted
  /\ inspectPage(res) # "null"
  /\ LET s0 == [Sess EXCEPT !.tasks[t].fetched = res]
     IN  IF shouldAbort(aborted, Stop)
         THEN /\ SetSess(Finish([s0 EXCEPT !.aborted = TRUE], t, "cancelled"))
              /\ Observe(Stop)
              /\ SameCount
         ELSE /\ pageCount' = pageCount + 1
              /\ progressCalls' = progressCalls + 1
              /\ totalCounted' = totalCounted + 1
              /\ pagesVisited' = reportProgress(wiring, pagesVisited, pageCount')
              /\ IF tasks[t].depth = 0 /\ links # <<>>
                 THEN LET expandedUrls == SelectExpanded(links, visitedUrls, <<>>)
                          stop == shouldStopFn(wiring, stopFlag, pagesVisited')
                          s1 == ClaimAll(s0, expandedUrls, 1, t, stop)
                      IN  /\ IF ChildrenDone(s1.tasks, t)
                             THEN SetSess(Finish(s1, t, "success"))
                             ELSE SetSess([s1 EXCEPT !.tasks[t].pc = "expand",
                                                     !.tasks[t].outcome = "success"])
                          /\ stopFlag' = IF expandedUrls # <<>> THEN stop ELSE stopFlag
                 ELSE /\ SetSess(Finish(s0, t, "success"))
                      /\ UNCHANGED stopFlag
  /\ UNCHANGED fetchCount
  /\ SameCall
  /\ UNCHANGED <<storeVars, sideVars>>

\* lines 359-364: Promise.all(expandTasks) has resolved
ExpandDone(t) ==
  /\ tasks[t].pc = "expand"
  /\ ChildrenDone(tasks, t)
  /\ SetSess(Finish(Sess, t, "success"))
  /\ UNCHANGED <<stopFlag, fetchCount>>
  /\ SameCall /\ SameCount
  /\ UNCHANGED <<storeVars, sideVars>>

Next ==
  \/ \E n \in 1..MaxSeeds : InspectQuestion(n)
  \/ SignalStop
  \/ \E t \in TaskIds : AfterAcquire(t)
  \/ \E t \in TaskIds : DelayDone(t)
  \/ \E t \in TaskIds : \E res \in SessionResults : FetchNull(t, res)
  \/ \E t \in TaskIds : \E links \in LinkChoices : FetchPage(t, GoodBody, links)
  \/ \E t \in TaskIds : ExpandDone(t)

Spec == Init /\ [][Next]_vars

\* a session in which a fetch can end in every way
ResultNext ==
  \/ \E n \in 1..MaxSeeds : InspectQuestion(n)
  \/ SignalStop
  \/ \E t \in TaskIds : AfterAcquire(t)
  \/ \E t \in TaskIds : DelayDone(t)
  \/ \E t \in TaskIds : \E res \in FetchResults : FetchNull(t, res)
  \/ \E t \in TaskIds : \E res \in FetchResults : \E links \in LinkChoices :
       FetchPage(t, res, links)
  \/ \E t \in TaskIds : ExpandDone(t)

ResultSpec == Init /\ [][ResultNext]_vars

\* a session of one seed that is not cancelled and whose pages have 40
\* links and more; the fetch of a link delivers its page
ExpandNext ==
  \/ InspectQuestion(1)
  \/ \E t \in TaskIds : AfterAcquire(t)
  \/ \E t \in TaskIds : DelayDone(t)
  \/ \E t \in TaskIds : tasks[t].depth = 0 /\ FetchNull(t, FetchErr)
  \/ \E t \in TaskIds : \E links \in WideLinkChoices : FetchPage(t, GoodBody, links)
  \/ \E t \in TaskIds : ExpandDone(t)

ExpandSpec == Init /\ [][ExpandNext]_vars

\* the steps of a session all of whose fetches end in a timeout: timers and
\* promise continuations, which the event loop runs when they are due
TimeoutStep ==
  \/ \E t \in TaskIds : AfterAcquire(t)
  \/ \E t \in TaskIds : DelayDone(t)
  \/ \E t \in TaskIds : FetchNull(t, Timeout)

TimeoutNext ==
  \/ \E n \in 0..MaxSeeds : InspectQuestion(n)
  \/ TimeoutStep

TimeoutFairSpec == Init /\ [][TimeoutNext]_vars /\ WF_vars(TimeoutStep)

\* the steps of a session every fetch of which completes, with a page or
\* with a failure: timers, responses and promise continuations, which the
\* event loop runs when they are due
SessionStep ==
  \/ \E t \in TaskIds : AfterAcquire(t)
  \/ \E t \in TaskIds : DelayDone(t)
  \/ \E t \in TaskIds : \E res \in SessionResults : FetchNull(t, res)
  \/ \E t \in TaskIds : \E links \in OwnLinkChoices : FetchPage(t, GoodBody, links)
  \/ \E t \in TaskIds : ExpandDone(t)

SessionNext ==
  \/ \E n \in 1..MaxSeeds : InspectQuestion(n)
  \/ SignalStop
  \/ SessionStep

SessionFairSpec == Init /\ [][SessionNext]_vars /\ WF_vars(SessionStep)

\* the sessions of a run: called as src/cli.js 313-319 calls them, or with
\* the run's shouldContinue and reportProgress as stop predicate and
\* progress callback, one session after the other
LoopNext ==
  \/ \E n \in 0..MaxSeeds : InspectQuestionCli(n)
  \/ \E n \in 1..MaxSeeds : InspectQuestionRun(n)
  \/ SignalStop
  \/ \E t \in TaskIds : AfterAcquire(t)
  \/ \E t \in TaskIds : DelayDone(t)
  \/ \E t \in TaskIds : \E res \in SessionResults : FetchNull(t, res)
  \/ \E t \in TaskIds : \E links \in LinkChoices : FetchPage(t, GoodBody, links)
  \/ \E t \in TaskIds : ExpandDone(t)

LoopSpec == Init /\ [][LoopNext]_vars

(***************************************************************************)
(* normalizeUrl applied to its own result.                                 *)
(***************************************************************************)
\* the slashes that end a path
MaxSlashes == 2

\* the parameters of a query string
MaxParams == 2

QueryKeys == {"a", "b", "ref", "utm_source"}

QueryInputs == UNION {[1..n -> QueryKeys] : n \in 0..MaxParams}

\* the URL strings normalizeUrl is given
UrlInputs ==
  {Url(ok, "p1", s, q, f) :
     ok \in BOOLEAN, s \in 0..MaxSlashes, q \in QueryInputs, f \in BOOLEAN}

NormInit ==
  /\ SessionInit
  /\ StoreInit
  /\ fetch = NoFetch
  /\ pair = <<>>
  /\ cli = CliInit
  /\ norm \in {<<u>> : u \in UrlInputs}

\* normalizeUrl(x) with x the last result
Normalize ==
  /\ Len(norm) \in 1..2
  /\ norm' = Append(norm, normalizeUrl(norm[Len(norm)]))
  /\ UNCHANGED <<sessionVars, storeVars, fetch, pair, cli>>

NormSpec == NormInit /\ [][Normalize]_vars

(***************************************************************************)
(* normalizeUrl applied to two URL strings that name the same page.        *)
(***************************************************************************)
\* how often a key occurs in a query string
KeyCount(q, key) == Cardinality({i \in DOMAIN q : q[i] = key})

\* u and v differ at most in their fragment, in their tracking parameters,
\* in the order of their other parameters and in one slash at the end of
\* the path
SamePage(u, v) ==
  /\ u.ok = v.ok
  /\ u.page = v.page
  /\ u.slashes - v.slashes \in {-1, 0, 1}
  /\ \A key \in QueryKeys :
       ~IsTracking(key) => KeyCount(u.query, key) = KeyCount(v.query, key)

PairInit ==
  /\ SessionInit
  /\ StoreInit
  /\ fetch = NoFetch
  /\ norm = <<>>
  /\ cli = CliInit
  /\ pair \in {uv \in UrlInputs \X UrlInputs : SamePage(uv[1], uv[2])}

\* normalizeUrl(u) and normalizeUrl(v)
NormalizePair ==
  /\ Len(pair) = 2
  /\ pair' = pair \o <<normalizeUrl(pair[1]), normalizeUrl(pair[2])>>
  /\ UNCHANGED <<sessionVars, storeVars, norm, fetch, cli>>

PairSpec == PairInit /\ [][NormalizePair]_vars

(***************************************************************************)
(* fetchWithTimeout (inspector.js 98-190).                                 *)
(*   fetch.pc: "idle"      not called                                      *)
(*             "request"   protocol.get sent, no response yet              *)
(*             "body"      a 200 text/html response is being streamed      *)
(*             "resolved"  the promise resolved with the body              *)
(*             "rejected"  the promise rejected with fetch.err             *)
(*   fetch.timer  which timer is armed: every call arms one of its own     *)
(*                (108), told apart here by the parity of the call         *)
(*   fetch.hops   redirects followed, counted up to MaxHops                *)
(*   fetch.size   characters received, in units of MAX_TEXT_LENGTH         *)
(*   fetch.signal abortSignal.aborted                                      *)
(***************************************************************************)
\* the redirects that are counted (the count stops there, the fetch not)
MaxHops == 3

\* the URLs a Location header can name
Targets == {"a", "b"}

Settle(f, pc, err) == [f EXCEPT !.pc = pc, !.err = err]

\* lines 99-113: the call
FetchCall(signal) ==
  /\ fetch.pc = "idle"
  /\ fetch' = IF signal
              THEN Settle([fetch EXCEPT !.signal = TRUE], "rejected", "Aborted")
              ELSE [fetch EXCEPT !.pc = "request"]
  /\ UNCHANGED <<sessionVars, storeVars, norm, pair, cli>>

\* lines 128-135: a 3xx response with a Location header; the timer is
\* cleared and fetchWithTimeout is called again for the target, whose
\* promise settles this one
Redirect(target) ==
  /\ fetch.pc = "request"
  /\ fetch' = [fetch EXCEPT !.url = target,
                            !.timer = 1 - @,
                            !.hops = IF @ < MaxHops THEN @ + 1 ELSE @]
  /\ UNCHANGED <<sessionVars, storeVars, norm, pair, cli>>

\* lines 137-148: a response that is not 200, or not text/html
BadResponse(err) ==
  /\ fetch.pc = "request"
  /\ fetch' = Settle(fetch, "rejected", err)
  /\ UNCHANGED <<sessionVars, storeVars, norm, pair, cli>>

\* lines 150-175: a 200 text/html response; its body starts to arrive
GoodResponse ==
  /\ fetch.pc = "request"
  /\ fetch' = [fetch EXCEPT !.pc = "body"]
  /\ UNCHANGED <<sessionVars, storeVars, norm, pair, cli>>

\* lines 151-164: a chunk of MAX_TEXT_LENGTH characters
Data ==
  /\ fetch.pc = "body"
  /\ fetch' = IF fetch.size + 1 > 2
              THEN Settle([fetch EXCEPT !.size = @ + 1], "rejected", "Response too large")
              ELSE [fetch EXCEPT !.size = @ + 1]
  /\ UNCHANGED <<sessionVars, storeVars, norm, pair, cli>>

\* lines 166-169
End ==
  /\ fetch.pc = "body"
  /\ fetch' = Settle(fetch, "resolved", "none")
  /\ UNCHANGED <<sessionVars, storeVars, norm, pair, cli>>

\* lines 171-180: the request or the response emits an error
ErrorEvent ==
  /\ fetch.pc \in {"request", "body"}
  /\ fetch' = Settle(fetch, "rejected", "error")
  /\ UNCHANGED <<sessionVars, storeVars, norm, pair, cli>>

\* lines 182-188: the signal is aborted while the call is pending
AbortEvent ==
  /\ fetch.pc \in {"request", "body"}
  /\ fetch' = Settle([fetch EXCEPT !.signal = TRUE], "rejected", "Aborted")
  /\ UNCHANGED <<sessionVars, storeVars, norm, pair, cli>>

\* lines 108-111: the timer of the current request fires
TimerFires(id) ==
  /\ fetch.pc \in {"request", "body"}
  /\ fetch.timer = id
  /\ fetch' = Settle(fetch, "rejected", "Timeout")
  /\ UNCHANGED <<sessionVars, storeVars, norm, pair, cli>>

FetchNext ==
  \/ \E signal \in BOOLEAN : FetchCall(signal)
  \/ \E target \in Targets : Redirect(target)
  \/ \E err \in {"HTTP", "Not HTML"} : BadResponse(err)
  \/ GoodResponse
  \/ Data
  \/ End
  \/ ErrorEvent
  \/ AbortEvent
  \/ \E id \in {0, 1} : TimerFires(id)

\* a timer that stays armed fires
FetchFairSpec ==
  Init /\ [][FetchNext]_vars /\ WF_vars(TimerFires(0)) /\ WF_vars(TimerFires(1))

(***************************************************************************)
(* Actions of the store.  Its callers call initialize once and save only   *)
(* after that call has returned, as src/cli.js does (238); flush is also   *)
(* called by the signal handlers of 647-663 and can come at any time.      *)
(***************************************************************************)
Keep == UNCHANGED <<sessionVars, sideVars>>

Initialize ==
  /\ ~crashed
  /\ initPc = "new"
  /\ SetStore(InitializeCall(Store))
  /\ UNCHANGED <<flushCalls, crashed>>
  /\ Keep

InitIO(ioOk) ==
  /\ ~crashed
  /\ initPc \in {"mkdir", "accessQuestions", "accessPages", "writePages",
                 "accessFinal", "readMeta"}
  /\ SetStore(InitStep(Store, ioOk))
  /\ UNCHANGED <<flushCalls, crashed>>
  /\ Keep

AtomicWriteIO(owner) ==
  /\ ~crashed
  /\ aw[owner] # NoFrame
  /\ SetStore(AtomicWriteAdvance(Store, owner))
  /\ UNCHANGED <<flushCalls, crashed>>
  /\ Keep

\* initialize() is called again, while the first call is in progress or
\* after it
InitializeAgain ==
  /\ ~crashed
  /\ initPc # "new"
  /\ init2Pc = "new"
  /\ SetStore(SwapInit(InitializeCall(SwapInit(Store))))
  /\ UNCHANGED <<flushCalls, crashed>>
  /\ Keep

InitAgainIO(ioOk) ==
  /\ ~crashed
  /\ init2Pc \in {"mkdir", "accessQuestions", "accessPages", "writePages",
                  "accessFinal", "readMeta"}
  /\ SetStore(SwapInit(InitStep(SwapInit(Store), ioOk)))
  /\ UNCHANGED <<flushCalls, crashed>>
  /\ Keep

InitReturned == initPc \in {"done", "failed"}
NextSave(id) == saves[id].type = "none" /\ \A j \in 1..(id - 1) : saves[j].type # "none"

SavePageResult(id) ==
  /\ ~crashed
  /\ InitReturned
  /\ NextSave(id)
  /\ SetStore(Save(Store, id, "page"))
  /\ UNCHANGED <<flushCalls, crashed>>
  /\ Keep

SaveSynthesis(id) ==
  /\ ~crashed
  /\ InitReturned
  /\ NextSave(id)
  /\ SetStore(Save(Store, id, "final"))
  /\ UNCHANGED <<flushCalls, crashed>>
  /\ Keep

SaveQuestionTree ==
  /\ ~crashed
  /\ InitReturned
  /\ sqt = "none"
  /\ SetStore(SaveQuestionTreeCall(Store))
  /\ UNCHANGED <<flushCalls, crashed>>
  /\ Keep

AppendIO(ioOk) ==
  /\ ~crashed
  /\ pqPc = "append"
  /\ SetStore(PqAppendDone(Store, ioOk))
  /\ UNCHANGED <<flushCalls, crashed>>
  /\ Keep

Flush ==
  /\ ~crashed
  /\ flushCalls < MaxFlush
  /\ flushCalls' = flushCalls + 1
  /\ SetStore(FlushBegin(Store))
  /\ UNCHANGED crashed
  /\ Keep

FlushTimer ==
  /\ ~crashed
  /\ flushPc = "wait"
  /\ SetStore(FlushPoll(Store))
  /\ UNCHANGED <<flushCalls, crashed>>
  /\ Keep

FlushReadIO ==
  /\ ~crashed
  /\ flushPc = "readFinal"
  /\ SetStore(FlushReadDone(Store))
  /\ UNCHANGED <<flushCalls, crashed>>
  /\ Keep

\* the process is killed: nothing runs any more, the files stay as they are
Crash ==
  /\ ~crashed
  /\ crashed' = TRUE
  /\ UNCHANGED <<currentRunPath, metaData, isFlushing, shutdownRequested, writeQueue,
                 processingQueue, disk, initPc, init2Pc, pqPc, pqTask, flushPc, aw,
                 saves, sqt, flushCalls, appended, metaWrites, flushDone, flushSaw,
                 resolveOrder, metaOrder, processing, failedWrites, flushBodies>>
  /\ Keep

StoreRun ==
  \/ Initialize
  \/ \E ioOk \in BOOLEAN : InitIO(ioOk)
  \/ \E owner \in Owners : AtomicWriteIO(owner)
  \/ \E id \in SaveIds : SavePageResult(id)
  \/ \E id \in SaveIds : SaveSynthesis(id)
  \/ \E ioOk \in BOOLEAN : AppendIO(ioOk)
  \/ Flush
  \/ FlushTimer
  \/ FlushReadIO

\* the same with the saveQuestionTree call, and killed at any time
StoreNext == StoreRun \/ SaveQuestionTree \/ Crash

StoreSpec == Init /\ [][StoreNext]_vars

\* the store with initialize called twice, the calls overlapping or not,
\* and with save calls; no flush
ReinitNext ==
  \/ Initialize
  \/ InitializeAgain
  \/ \E ioOk \in BOOLEAN : InitIO(ioOk)
  \/ \E ioOk \in BOOLEAN : InitAgainIO(ioOk)
  \/ \E owner \in Owners : AtomicWriteIO(owner)
  \/ \E id \in SaveIds : SavePageResult(id)
  \/ \E id \in SaveIds : SaveSynthesis(id)
  \/ \E ioOk \in BOOLEAN : AppendIO(ioOk)

ReinitSpec == Init /\ [][ReinitNext]_vars

\* savePageResult called whenever the caller likes, also before initialize
\* has returned: the call only looks at currentRunPath and
\* shutdownRequested (518-524)
SavePageResultAnytime(id) ==
  /\ ~crashed
  /\ NextSave(id)
  /\ SetStore(Save(Store, id, "page"))
  /\ UNCHANGED <<flushCalls, crashed>>
  /\ Keep

\* the store with page saves issued while initialize is still running
EarlySaveNext ==
  \/ Initialize
  \/ \E ioOk \in BOOLEAN : InitIO(ioOk)
  \/ \E owner \in Owners : AtomicWriteIO(owner)
  \/ \E id \in SaveIds : SavePageResultAnytime(id)
  \/ \E ioOk \in BOOLEAN : AppendIO(ioOk)

EarlySaveSpec == Init /\ [][EarlySaveNext]_vars

\* a run as src/cli.js makes it: the store is initialized and the call
\* awaited (238), then comes the inspection session (313, 335)
RunNext ==
  \/ Initialize
  \/ \E ioOk \in BOOLEAN : InitIO(ioOk)
  \/ AtomicWriteIO("initialize")
  \/ InitReturned /\ \E n \in 1..MaxSeeds : InspectQuestion(n)
  \/ InitReturned /\ SignalStop
  \/ InitReturned /\ \E t \in TaskIds : AfterAcquire(t)
  \/ InitReturned /\ \E t \in TaskIds : DelayDone(t)
  \/ InitReturned /\ \E t \in TaskIds : \E res \in SessionResults : FetchNull(t, res)
  \/ InitReturned /\ \E t \in TaskIds : \E links \in LinkChoices : FetchPage(t, GoodBody, links)
  \/ InitReturned /\ \E t \in TaskIds : ExpandDone(t)

RunSpec == Init /\ [][RunNext]_vars

(***************************************************************************)
(* The command-line process (src/cli.js): main (391-420), finalize         *)
(* (131-153) and gracefulShutdown (156-180), with the store they flush.    *)
(*   cli.mainPc: "run"       main awaits runResearch (402)                 *)
(*               "finalize"  main awaits finalize (404 or 416)             *)
(*               "done"      main has returned without process.exit        *)
(*   cli.err     main is in its catch block (410-419)                      *)
(*   cli.fin[who], who the caller of finalize:                             *)
(*               "none"   no finalize call of this caller is pending       *)
(*               "wait"   in the loop of 146-148, in its timer             *)
(*               "flush"  awaiting queueStorageOperation(flush) (150)      *)
(*   cli.exitCode  -1 while the process runs, else the code process.exit   *)
(*               was called with                                           *)
(***************************************************************************)
\* the signals and end-of-input events delivered to the process
MaxSignals == 2

\* the process and its store as one value
World == [cli |-> cli, st |-> Store]

SetWorld(next) ==
  \E w \in {next} :
    /\ cli' = w.cli
    /\ SetStore(w.st)

Exited == cli.exitCode # -1

\* process.exit(code)
ProcessExit(w, code) == [w EXCEPT !.cli.exitCode = code]

\* what the caller of finalize does when the call has returned: lines
\* 174-179 of gracefulShutdown, lines 406-408 or 418 of main
AfterFinalize(w, who) ==
  LET w1 == [w EXCEPT !.cli.fin[who] = "none"]
  IN  IF who = "shutdown" THEN ProcessExit(w1, 0)
      ELSE IF w1.cli.err THEN ProcessExit(w1, 1)
      ELSE IF ~w1.cli.cancelled THEN ProcessExit(w1, 0)
      ELSE [w1 EXCEPT !.cli.mainPc = "done"]

\* line 150: storage.flush() is called (the storage queue of 68-91 being
\* idle); a call that returns without awaiting anything -- line 603, or no
\* run to flush -- lets finalize go on at once
CallFlush(w, who) ==
  LET w1 == [w EXCEPT !.st = FlushBegin(w.st)]
  IN  IF FlushBusy(w.st) \/ w1.st.flushPc = "idle"
      THEN AfterFinalize(w1, who)
      ELSE [w1 EXCEPT !.cli.fin[who] = "flush"]

\* finalize() (131-153) up to its first await
Finalize(w, who) ==
  IF w.cli.finalizationDone THEN AfterFinalize(w, who)
  ELSE LET w1 == [w EXCEPT !.cli.finalizationDone = TRUE]
       IN  IF w1.cli.activeOperations > 0 THEN [w1 EXCEPT !.cli.fin[who] = "wait"]
           ELSE CallFlush(w1, who)

\* gracefulShutdown(reason) (156-180) up to its first await
GracefulShutdown(w) ==
  IF w.cli.shutdownInProgress THEN w
  ELSE LET w1 == [w EXCEPT !.cli.shutdownInProgress = TRUE]
       IN  IF w1.cli.cancelled THEN w1
           ELSE Finalize([w1 EXCEPT !.cli.cancelled = TRUE], "shutdown")

\* the store's own handler of SIGINT and SIGTERM (inspector.js 653-663),
\* registered when the module is loaded and so run before the process's
StoreSignalHandler(st) == IF st.shutdownRequested THEN st ELSE FlushBegin(st)

\* a phase of runResearch begins (activeOperations++ at 246, 311, 333, 370)
BeginOperation ==
  /\ ~Exited /\ InitReturned
  /\ cli.mainPc = "run"
  /\ cli.activeOperations = 0
  /\ cli' = [cli EXCEPT !.activeOperations = 1]
  /\ UNCHANGED <<sessionVars, storeVars, norm, fetch, pair>>

\* runResearch is over and main calls finalize: it returned (402-404), or
\* it threw after cancelling the run (347-351, 410-416); a phase in
\* progress has ended with activeOperations-- in its finally block
MainEnds(threw) ==
  /\ ~Exited /\ InitReturned
  /\ cli.mainPc = "run"
  /\ SetWorld(Finalize([World EXCEPT !.cli.activeOperations = 0,
                                     !.cli.mainPc = "finalize",
                                     !.cli.err = threw,
                                     !.cli.cancelled = @ \/ threw],
                        "main"))
  /\ UNCHANGED <<flushCalls, crashed>>
  /\ UNCHANGED <<sessionVars, norm, fetch, pair>>

\* SIGINT or SIGTERM (signal = TRUE: the store's handler runs, then
\* gracefulShutdown, 182-183), or the end of standard input (185)
Shutdown(signal) ==
  /\ ~Exited /\ InitReturned
  /\ cli.signals < MaxSignals
  /\ SetWorld(GracefulShutdown(
       [World EXCEPT !.cli.signals = @ + 1,
                     !.st = IF signal THEN StoreSignalHandler(@) ELSE @]))
  /\ UNCHANGED <<flushCalls, crashed>>
  /\ UNCHANGED <<sessionVars, norm, fetch, pair>>

\* lines 146-150: the timer of the loop has fired
FinalizeTimer(who) ==
  /\ ~Exited
  /\ cli.fin[who] = "wait"
  /\ cli.activeOperations = 0
  /\ SetWorld(CallFlush(World, who))
  /\ UNCHANGED <<flushCalls, crashed>>
  /\ UNCHANGED <<sessionVars, norm, fetch, pair>>

\* lines 150-152: the flush this finalize call awaits has returned
FinalizeResume(who) ==
  /\ ~Exited
  /\ cli.fin[who] = "flush"
  /\ flushPc = "idle"
  /\ SetWorld(AfterFinalize(World, who))
  /\ UNCHANGED <<flushCalls, crashed>>
  /\ UNCHANGED <<sessionVars, norm, fetch, pair>>

\* the process: the store is initialized, then the run, its end and the
\* shutdown events in any order, with the store's I/O
CliNext ==
  \/ Initialize
  \/ \E ioOk \in BOOLEAN : InitIO(ioOk)
  \/ ~Exited /\ \E owner \in Owners : AtomicWriteIO(owner)
  \/ ~Exited /\ FlushReadIO
  \/ BeginOperation
  \/ \E threw \in BOOLEAN : MainEnds(threw)
  \/ \E signal \in BOOLEAN : Shutdown(signal)
  \/ \E who \in {"main", "shutdown"} : FinalizeTimer(who)
  \/ \E who \in {"main", "shutdown"} : FinalizeResume(who)

CliSpec == Init /\ [][CliNext]_vars

\* the continuations that the event loop runs by itself: those of the
\* completed I/O operations and of the expired timers
StoreIO ==
  \/ \E ioOk \in BOOLEAN : InitIO(ioOk)
  \/ \E owner \in Owners : AtomicWriteIO(owner)
  \/ \E ioOk \in BOOLEAN : AppendIO(ioOk)
  \/ FlushTimer
  \/ FlushReadIO

\* the event loop does not stop while a continuation is due; nothing
\* obliges the callers to call
StoreFairSpec == Init /\ [][StoreRun]_vars /\ WF_vars(StoreIO)

(***************************************************************************)
(* Properties.                                                             *)
(***************************************************************************)
InFlight == {t \in TaskIds : tasks[t].pc = "fetch"}

\* C1: in every interleaving of a session's seed and expansion tasks, the
\* number of tasks inside inspectPage (fetches in flight) is at most the
\* Governor capacity MAX_CONCURRENT.
C1_FetchesBounded == Cardinality(InFlight) <= MAX_CONCURRENT

\* C1 witness: the capacity is used up by fetches while another task waits
\* for a slot.
C1_Witness ==
  /\ Cardinality(InFlight) = MAX_CONCURRENT
  /\ semaphore.queue # <<>>

TasksOf(n) == {t \in TaskIds : normalizeUrl(tasks[t].url) = n}

\* C2: within a session every normalized URL is claimed at most once and
\* fetched at most once, and there is never a second task for it (so a task
\* that reached a terminal state is not claimed again).
C2_ClaimedOnce ==
  \A n \in NormUrls :
    /\ claimCount[n] <= 1
    /\ fetchCount[n] <= 1
    /\ Cardinality(TasksOf(n)) <= 1

\* C2 witness: U1 and U1/ were both seeds, p3 was a seed and a link, p5 was
\* listed twice by the expanded page; each was fetched once and is terminal.
C2_Witness ==
  /\ Len(seedUrls) >= 4
  /\ \E t \in TaskIds : /\ tasks[t].depth = 1
                        /\ tasks[t].url = U5
                        /\ tasks[t].pc = "done"
                        /\ fetchCount[normalizeUrl(U5)] = 1
  /\ fetchCount[normalizeUrl(U1s)] = 1
  /\ fetchCount[normalizeUrl(U3r)] = 1

BeforeRename == {"mkdir", "write", "fsync", "rename", "unlink"}

\* C3: when the process is killed during an atomicWrite, the target file
\* holds its pre-write content (or is absent, if it was) at every step
\* before the rename has happened, and the complete new content at every
\* step after it; the target never holds anything else.
C3_AtomicWriteCrash ==
  crashed =>
    \A o \in Owners :
      aw[o] # NoFrame =>
        IF aw[o].pc \in BeforeRename
        THEN disk[aw[o].filePath] = aw[o].pre
        ELSE disk[aw[o].filePath] = aw[o].data

\* C3 witness: killed after writeFile has put the whole new content into
\* the temp file and before any rename.
C3_Witness ==
  /\ crashed
  /\ \E o \in Owners :
       /\ aw[o] # NoFrame
       /\ aw[o].pc = "fsync"
       /\ aw[o].filePath = "meta.json"
       /\ disk["meta.json.tmp"] = aw[o].data
       /\ aw[o].data.pageCount >= 1
       /\ disk["meta.json"] = aw[o].pre

\* C4: whenever the meta file is written, the pageCount written equals the
\* number of lines appended to the page log so far.
C4_PageCountMatchesLog == \A w \in metaWrites : w[1] = w[2]

\* C4 witness: meta was written with pageCount 2 after a failed append, a
\* synthesis and two successful appends.
C4_Witness ==
  /\ <<2, 2>> \in metaWrites
  /\ \E id \in SaveIds : saves[id].type = "page" /\ saves[id].result = "false"

Terminal == {"completed", "interrupted"}

\* C5: once the run status is completed or interrupted it never changes
\* again.
C5_StatusMonotonic ==
  [][(/\ metaData # NoMeta
      /\ metaData.status \in Terminal
      /\ metaData' # NoMeta) => metaData'.status = metaData.status]_vars

\* C6: in every reachable state the final result is non-null if and only
\* if the run status is completed.
C6_FinalIffCompleted ==
  HasFinal(Store) <=> (metaData # NoMeta /\ metaData.status = "completed")

QueuedPages == {id \in SaveIds : saves[id].type = "page" /\ saves[id].queued}

\* C7: after initialize, N queued savePageResult calls (N >= 1, all of them
\* resolved with true before flush is called), no saveSynthesis call and
\* one flush call that has returned, the persisted meta has status
\* interrupted and pageCount N.
C7_FlushMarksInterrupted ==
  (/\ initPc = "done"
   /\ flushCalls = 1
   /\ flushDone = 1
   /\ QueuedPages # {}
   /\ QueuedPages \subseteq flushSaw
   /\ \A id \in SaveIds : saves[id].type # "final")
  => /\ disk["meta.json"] # Absent
     /\ disk["meta.json"].status = "interrupted"
     /\ disk["meta.json"].pageCount = Cardinality(QueuedPages)

\* C8: after a saveSynthesis call that resolved with success, followed by
\* flush, the persisted meta has status completed and the persisted final
\* result is non-null.
C8_FlushKeepsCompleted ==
  (/\ flushCalls = 1
   /\ flushDone = 1
   /\ \E id \in flushSaw : saves[id].type = "final")
  => /\ disk["meta.json"] # Absent
     /\ disk["meta.json"].status = "completed"
     /\ HasFinal(Store)

\* C9: flush eventually returns, and when it returns the write queue is
\* empty and no task is being processed.
C9_FlushReturns ==
  /\ (flushPc # "idle") ~> (flushPc = "idle")
  /\ [][flushDone' > flushDone => (writeQueue' = <<>> /\ ~processingQueue')]_vars

\* C10: every save call whose task was accepted into the write queue
\* eventually resolves, and it resolves only once its task is no longer
\* in the queue or being processed.
C10_SaveResolves ==
  /\ \A id \in SaveIds :
       (saves[id].queued /\ saves[id].result = "pending")
         ~> (saves[id].result # "pending")
  /\ [](\A id \in SaveIds :
          (saves[id].queued /\ saves[id].result # "pending")
            => /\ pqTask.id # id
               /\ \A i \in 1..Len(writeQueue) : writeQueue[i].id # id)

Increasing(seq) == \A i, j \in 1..Len(seq) : i < j => seq[i] < seq[j]

\* no save call is waiting and the processing loop is not running
Quiescent ==
  /\ pqPc = "idle"
  /\ writeQueue = <<>>
  /\ \A id \in SaveIds : saves[id].result # "pending"

\* the outcome fs.appendFile had for each page task
AppendOk == [id \in SaveIds |-> saves[id].result # "false"]

\* the store as initialize left it, before any save call
SeqStart ==
  [Store EXCEPT !.metaData = JsonMeta("running", 0),
                !.disk = [f \in Files \cup TmpFiles |->
                            IF f = "pages.jsonl" THEN Lines(<<>>) ELSE Absent],
                !.saves = [id \in SaveIds |->
                             [type |-> "none", queued |-> FALSE, result |-> "none"]],
                !.appended = 0, !.resolveOrder = <<>>, !.metaOrder = <<>>]

\* the files that the tasks of the save calls write
TaskFiles ==
  {"pages.jsonl", "final.json", "final.json.tmp", "meta.json", "meta.json.tmp"}

\* the processing loop run until it is idle again
RECURSIVE Drain(_)
Drain(st) ==
  IF st.pqPc = "idle" THEN st
  ELSE IF st.pqPc = "append"
       THEN Drain(PqAppendDone(st, AppendOk[st.pqTask.id]))
       ELSE Drain(AtomicWriteAdvance(st, "processQueue"))

\* the save calls made so far, made one at a time from call id on: each
\* one is awaited before the next is made
RECURSIVE OneAtATime(_, _)
OneAtATime(st, id) ==
  IF id > MaxSaves \/ saves[id].type = "none" THEN st
  ELSE OneAtATime(Drain(Save(st, id, saves[id].type)), id + 1)

\* C11: the tasks are processed in the order they were enqueued (the ids
\* are given in call order): the lines of the page log, the changes of
\* metaData and the resolutions of the promises are all in that order;
\* and once all the calls have resolved, the store (metaData, the promises'
\* values and the files the tasks write) is in the state that the same
\* calls made one at a time in that order produce.
C11_QueueIsSequential ==
  /\ disk["pages.jsonl"] # Absent => Increasing(disk["pages.jsonl"].lines)
  /\ Increasing(metaOrder)
  /\ Increasing(resolveOrder)
  /\ (initPc = "done" /\ flushCalls = 0 /\ Quiescent)
       => LET s == OneAtATime(SeqStart, 1)
          IN  /\ \A f \in TaskFiles : s.disk[f] = disk[f]
              /\ s.metaData = metaData
              /\ s.saves = saves
              /\ s.resolveOrder = resolveOrder
              /\ s.metaOrder = metaOrder

\* C11 witness: three calls were in the queue or in progress together (the
\* third was enqueued while the first was still being processed), the
\* first append failed, and all three have resolved.
C11_Witness ==
  /\ flushCalls = 0
  /\ Quiescent
  /\ resolveOrder = <<1, 2, 3>>
  /\ saves[1].result = "false"
  /\ saves[2].type = "final"
  /\ disk["pages.jsonl"] = Lines(<<3>>)
  /\ metaOrder = <<2, 3>>

\* C12: at most one write task is being processed at any time, and only
\* while the processing flag is set; the task in progress is the only one
\* whose writes are under way.
C12_OneTaskAtATime ==
  /\ Cardinality(processing) <= 1
  /\ processing # {} => (processingQueue /\ processing = {pqTask.id})
  /\ processing = {} => (pqPc = "idle" /\ aw["processQueue"] = NoFrame)

\* C12 witness: a task is being processed, two more save calls have
\* invoked processQueue meanwhile and their tasks wait in the queue.
C12_Witness ==
  /\ processing = {1}
  /\ Len(writeQueue) = 2
  /\ aw["processQueue"] # NoFrame

\* C13: once flush has been called, every later savePageResult or
\* saveSynthesis call returns false without enqueuing a task, and the call
\* leaves the page log, the final file and meta (on disk and in memory)
\* unchanged.
C13_SaveAfterFlushRefused ==
  [][\A id \in SaveIds :
       (flushCalls >= 1 /\ saves[id].type = "none" /\ saves'[id].type # "none")
         => /\ saves'[id].result = "false"
            /\ ~saves'[id].queued
            /\ writeQueue' = writeQueue
            /\ disk' = disk
            /\ metaData' = metaData]_vars

\* C13 witness: on an initialized store a page save was accepted before
\* flush was called, and a savePageResult and a saveSynthesis call made
\* after it have both returned false.
C13_Witness ==
  /\ initPc = "done"
  /\ currentRunPath
  /\ flushCalls >= 1
  /\ saves[1].queued
  /\ saves[2].type = "page" /\ ~saves[2].queued /\ saves[2].result = "false"
  /\ saves[3].type = "final" /\ ~saves[3].queued /\ saves[3].result = "false"

\* the tasks that wait or are in progress behind a task that failed
BehindFailed ==
  {id \in SaveIds :
     /\ saves[id].queued
     /\ saves[id].result = "pending"
     /\ \E j \in 1..(id - 1) : saves[j].queued /\ saves[j].result = "false"}

\* C14: when processing a task fails, the processing loop does not stop:
\* it goes on with the task enqueued behind it in the same step, and every
\* task enqueued behind a failed one is resolved in the end, unless a
\* flush call has closed the queue meanwhile.
C14_FailureDoesNotStopQueue ==
  /\ [][\A j \in SaveIds :
          (/\ saves[j].result = "pending"
           /\ saves'[j].result = "false"
           /\ writeQueue # <<>>
           /\ ~shutdownRequested)
            => /\ processingQueue'
               /\ pqTask' = Head(writeQueue)
               /\ writeQueue' = Tail(writeQueue)]_vars
  /\ (BehindFailed # {}) ~> (BehindFailed = {} \/ shutdownRequested)

\* C14 witness: the first task failed (its append threw) and the two tasks
\* enqueued behind it were processed and resolved with true.
C14_Witness ==
  /\ flushCalls = 0
  /\ saves[1].queued /\ saves[1].result = "false"
  /\ resolveOrder = <<1, 2, 3>>
  /\ saves[2].result = "true"
  /\ saves[3].result = "true"
  /\ appended = Cardinality({id \in {2, 3} : saves[id].type = "page"})

\* C15: a save call (savePageResult, saveSynthesis, saveQuestionTree)
\* reports true to its caller only if none of the file writes made for it
\* failed; stated for the runs in which flush is never called.
C15_TrueOnlyIfWritten ==
  flushCalls = 0 =>
    /\ \A id \in SaveIds : saves[id].result = "true" => id \notin failedWrites
    /\ sqt = "true" => QuestionTreeId \notin failedWrites

\* C16: after an initialize call that succeeded (and before any save or
\* flush call) the run directory holds a meta file with status running
\* and pageCount 0, an empty questions snapshot, an empty page log and a
\* null final result.
C16_InitializeWritesFiles ==
  (/\ initPc = "done"
   /\ currentRunPath
   /\ flushCalls = 0
   /\ sqt = "none"
   /\ \A id \in SaveIds : saves[id].type = "none")
  => /\ disk["meta.json"] = JsonMeta("running", 0)
     /\ disk["questions.json"] = JsonEmptyArray
     /\ disk["pages.jsonl"] = Lines(<<>>)
     /\ disk["final.json"] = JsonNull

\* C17: on a store that the first initialize call has initialized, no step
\* of a second initialize call changes the run directory path, metaData
\* (pageCount and status included), the questions snapshot, the page log
\* or the final result, also when the second call was made while the
\* first one had not finished; stated for a second call that meets no
\* I/O failure.
C17_SecondInitializeIsNoOp ==
  [][(/\ initPc = "done"
      /\ currentRunPath
      /\ (init2Pc' # init2Pc \/ aw'["initialize2"] # aw["initialize2"])
      /\ init2Pc' # "failed")
       => /\ currentRunPath' = currentRunPath
          /\ metaData' = metaData
          /\ \A f \in Files : disk'[f] = disk[f]]_vars

\* C18: when initialize has failed (its catch ran, as it does when the run
\* directory cannot be created), the store is disabled: every
\* saveQuestionTree, savePageResult and saveSynthesis call made afterwards
\* returns false, no task is enqueued or processed, and no file is written
\* any more.
C18_FailedInitializeDisablesStore ==
  /\ [](initPc = "failed" =>
          /\ ~currentRunPath
          /\ metaData = NoMeta
          /\ \A id \in SaveIds :
               saves[id].type # "none"
                 => (saves[id].result = "false" /\ ~saves[id].queued)
          /\ sqt \in {"none", "false"}
          /\ writeQueue = <<>>
          /\ pqPc = "idle"
          /\ aw["processQueue"] = NoFrame
          /\ aw["saveQuestionTree"] = NoFrame)
  /\ [][initPc = "failed" => disk' = disk]_vars

\* C18 witness: initialize failed before it wrote anything (the directory
\* could not be created), and afterwards a savePageResult, a saveSynthesis
\* and a saveQuestionTree call have each returned false.
C18_Witness ==
  /\ initPc = "failed"
  /\ metaWrites = {}
  /\ disk["pages.jsonl"] = Absent
  /\ saves[1].type = "page" /\ saves[1].result = "false"
  /\ saves[2].type = "final" /\ saves[2].result = "false"
  /\ sqt = "false"

\* a step of a running flush body
FlushBodyStep ==
  \/ flushPc' # flushPc
  \/ aw'["flush"] # aw["flush"]
  \/ flushDone' # flushDone

\* C19: however often and whenever flush is called, at most one flush body
\* runs at a time; a call made while a body is running changes nothing;
\* and a body that runs after another one has finished changes no file of
\* the run directory, so that the persisted state is the one the first
\* flush left.
C19_FlushIdempotent ==
  /\ [](flushBodies <= 1)
  /\ [][(flushCalls' = flushCalls + 1 /\ isFlushing)
          => UNCHANGED <<disk, metaData, isFlushing, shutdownRequested, writeQueue,
                         flushPc, aw, flushDone, flushBodies>>]_vars
  /\ [][(FlushBodyStep /\ flushDone >= 1)
          => \A f \in Files : disk'[f] = disk[f]]_vars

\* C19 witness: on an initialized store with a page appended, flush was
\* called twice, the second call while the body of the first was running
\* (it returned at once), and the one body has run to its end.
C19_Witness ==
  /\ initPc = "done"
  /\ appended >= 1
  /\ flushCalls = 2
  /\ flushDone = 1
  /\ flushBodies = 0
  /\ flushPc = "idle"

\* C20: every successful inspection of a session is persisted through the
\* store as one line of the page log: when the session is over, on a store
\* that was initialized, the number of lines appended and the store's
\* pageCount both equal the number of successful inspections reported
\* through the progress callback.
C20_InspectionsPersisted ==
  (/\ initPc = "done"
   /\ started
   /\ \A t \in TaskIds : tasks[t].pc = "done")
  => /\ appended = progressCalls
     /\ disk["pages.jsonl"] = Lines([i \in 1..progressCalls |-> i])
     /\ metaData.pageCount = progressCalls

\* the task's URL failed: its fetch was rejected, the extracted text is
\* shorter than the minimum, or the session has observed cancellation
FailedTask(t) ==
  \/ tasks[t].fetched.kind # "body"
  \/ tasks[t].fetched.textLen < MIN_TEXT_LENGTH
  \/ aborted

\* C21: a step in which a URL task ends its own work (it returns, or goes on
\* to wait for its expansion) as a failed task -- fetch error, text shorter
\* than the minimum, or cancellation observed at one of its checkpoints --
\* increments no page counter, does not call the progress callback and
\* writes nothing: no file changes and no write task is queued.
C21_FailureCountsNothing ==
  [][\A t \in TaskIds :
       (/\ tasks[t].pc \in {"granted", "delay", "fetch"}
        /\ tasks'[t].pc \in {"done", "expand"}
        /\ FailedTask(t)')
       => /\ pageCount' = pageCount
          /\ progressCalls' = progressCalls
          /\ totalCounted' = totalCounted
          /\ pagesVisited' = pagesVisited
          /\ disk' = disk
          /\ writeQueue' = writeQueue
          /\ appended' = appended]_vars

\* C21 witness: one page was counted, and next to it one task failed on a
\* timeout, one on a text one character short of the minimum, and one had
\* its delivered page discarded because cancellation was observed
C21_Witness ==
  /\ pageCount = 1
  /\ progressCalls = 1
  /\ \E t \in TaskIds : tasks[t].pc = "done" /\ tasks[t].fetched = Timeout
  /\ \E t \in TaskIds : tasks[t].pc = "done" /\ tasks[t].fetched = ShortBody
  /\ \E t \in TaskIds :
       /\ tasks[t].pc = "done"
       /\ tasks[t].fetched = GoodBody
       /\ tasks[t].outcome = "cancelled"

\* the tasks whose fetch was started
Fetched == {t \in TaskIds : tasks[t].pc \in {"fetch", "expand"} \/ tasks[t].fetched # NoResult}

\* C22: a depth-0 task starts at most MAX_EXPANDED_URLS depth-1 tasks, and
\* only after its page was counted; a link is made a task only if its
\* normalized form was not claimed before (no normalized URL is claimed
\* twice); a depth-1 task starts no task; and a session of one seed starts
\* at most 1 + MAX_EXPANDED_URLS fetches.
C22_ExpansionCapped ==
  /\ \A t \in TaskIds :
       /\ tasks[t].depth \in {0, 1}
       /\ tasks[t].depth = 0 => Cardinality(Children(tasks, t)) <= MAX_EXPANDED_URLS
       /\ tasks[t].depth = 1 =>
            /\ Children(tasks, t) = {}
            /\ tasks[t].parent \in TaskIds
            /\ tasks[tasks[t].parent].depth = 0
            /\ tasks[tasks[t].parent].outcome = "success"
  /\ \A n \in NormUrls : claimCount[n] <= 1
  /\ Len(seedUrls) = 1 => Cardinality(Fetched) <= 1 + MAX_EXPANDED_URLS

\* C22 witness: one seed whose page has 40 links (and more); exactly 25
\* depth-1 tasks were started, every one of the 26 pages was fetched and
\* counted, and depth-1 pages with 40 links of their own started nothing
C22_Witness ==
  /\ Len(seedUrls) = 1
  /\ Len(tasks) = 1 + MAX_EXPANDED_URLS
  /\ Cardinality(Children(tasks, 1)) = MAX_EXPANDED_URLS
  /\ pageCount = 1 + MAX_EXPANDED_URLS
  /\ \A t \in TaskIds : tasks[t].pc = "done"

\* C23: when every fetch ends in a timeout, a session of any seed list
\* counts no page, never calls the progress callback, does not reject, and
\* once started it eventually resolves.
C23_TimeoutsResolve ==
  /\ [](pageCount = 0 /\ progressCalls = 0 /\ ~rejected)
  /\ started ~> Resolved

\* C23 witness: a session of five seeds (four different pages, so that one
\* task had to wait for a slot) has resolved, every fetch having timed out
C23_Witness ==
  /\ Resolved
  /\ Len(seedUrls) = 5
  /\ Len(tasks) = 4
  /\ \A t \in TaskIds : tasks[t].fetched = Timeout
  /\ pageCount = 0

\* C24: the promise inspectQuestion returns never rejects, whoever calls
\* it, the command-line orchestrator included.
C24_NeverRejects == ~rejected

C25_NoClaimAfterCancel ==
  [][aborted' => /\ visitedUrls' = visitedUrls
                 /\ claimCount' = claimCount
                 /\ fetchCount' = fetchCount]_vars

\* C25 witness: cancellation was observed by a depth-0 task whose fetch had
\* delivered its page (it was not fanned out), while one task is still
\* waiting for a slot and another is in its delay
C25_Witness ==
  /\ aborted
  /\ \E t \in TaskIds : tasks[t].pc = "acquire"
  /\ \E t \in TaskIds : tasks[t].pc = "delay"
  /\ \E t \in TaskIds :
       /\ tasks[t].depth = 0
       /\ tasks[t].outcome = "cancelled"
       /\ tasks[t].fetched = GoodBody

\* C26: a fetch that is in flight when the caller's cancellation signal has
\* fired does not end by delivering a body.
C26_SignalAbortsFetch ==
  [][\A t \in TaskIds :
       (stopFlag /\ tasks[t].pc = "fetch" /\ tasks'[t].pc # "fetch")
       => tasks'[t].fetched.kind # "body"]_vars

\* C28: slots are granted in the order they were requested (a task's id is
\* its place in the order of the acquire() calls, so the ids in grantOrder
\* increase); a free slot never coexists with a waiting caller, so nobody
\* who requests later is served first; and a release() that finds waiters
\* wakes the one at the head of the queue, the one waiting longest, and
\* nobody else.
C28_FirstRequestedFirstGranted ==
  /\ [](/\ Increasing(grantOrder)
        /\ Increasing(semaphore.queue)
        /\ semaphore.queue # <<>> => semaphore.current = semaphore.max)
  /\ [][Len(semaphore'.queue) < Len(semaphore.queue)
        => /\ semaphore'.queue = Tail(semaphore.queue)
           /\ grantOrder' = Append(grantOrder, Head(semaphore.queue))
           /\ tasks'[Head(semaphore.queue)].pc = "granted"
           /\ \A t \in TaskIds \ {Head(semaphore.queue)} :
                tasks[t].pc = "acquire" => tasks'[t].pc = "acquire"]_vars

\* C28 witness: two callers were blocked, a release() has woken the first
\* of them and the second is still waiting
C28_Witness ==
  /\ Len(grantOrder) = 4
  /\ grantOrder[4] = 4
  /\ semaphore.queue = <<5>>
  /\ tasks[4].pc = "granted"
  /\ tasks[5].pc = "acquire"

\* C29: normalizing a normalized URL gives the same string: the second
\* result equals the first, for every URL string.
C29_NormalizeIdempotent == Len(norm) = 3 => norm[3] = norm[2]

\* C30: a fetchWithTimeout call that has been made eventually settles: its
\* promise resolves with a body or rejects.
C30_FetchTerminates ==
  (fetch.pc \in {"request", "body"}) ~> (fetch.pc \in {"resolved", "rejected"})

\* C35: the semaphore's count of slots in use stays between 0 and its
\* capacity, and tasks wait in its queue only while every slot is in use.
C35_SemaphoreBounds ==
  /\ 0 <= semaphore.current
  /\ semaphore.current <= semaphore.max
  /\ (semaphore.queue # <<>> => semaphore.current = semaphore.max)

\* C35 witness: a release has handed a slot to a waiter (a fourth task was
\* granted its slot) while another task still waits and all slots are in
\* use.
C35_Witness ==
  /\ started
  /\ Len(grantOrder) > MAX_CONCURRENT
  /\ semaphore.queue # <<>>
  /\ semaphore.current = semaphore.max

\* the tasks that hold a slot: acquire() has resolved for them and they
\* have not released yet
Holders == {t \in TaskIds : tasks[t].pc \in {"granted", "delay", "fetch", "expand"}}

\* C36: every slot acquired is released exactly once on every path (the
\* slots in use are exactly those of the tasks between their acquire and
\* their release), and when inspectQuestion resolves the semaphore holds
\* no slot and has no waiter.
C36_SlotsReleasedOnce ==
  /\ started => semaphore.current = Cardinality(Holders)
  /\ Resolved => semaphore.current = 0 /\ semaphore.queue = <<>>

\* C36 witness: a session has resolved in which a task released its slot on
\* the cancellation path right after acquire, another after a failed fetch
\* and another after counting its page.
C36_Witness ==
  /\ Resolved
  /\ semaphore.current = 0
  /\ \E t \in TaskIds : tasks[t].outcome = "cancelled" /\ tasks[t].fetched = NoResult
  /\ \E t \in TaskIds : tasks[t].outcome = "success"
  /\ \E t \in TaskIds : tasks[t].outcome = "failure"

\* the task has not reached its fetch: it waits for a slot, has just been
\* given one, or is in its delay
BeforeFetch(t) == tasks[t].pc \in {"acquire", "granted", "delay"}

\* C34: a task that waits for a slot or is in its delay when cancellation
\* has been signalled never starts a fetch: it does not go on to its delay
\* or to its fetch, and the step that ends it fetches nothing and counts
\* nothing.
C34_CancelledBeforeFetch ==
  [][\A t \in TaskIds :
       (started /\ stopFlag /\ BeforeFetch(t) /\ t \in DOMAIN tasks')
       => /\ tasks'[t].pc \in {tasks[t].pc, "granted", "done"}
          /\ tasks'[t].fetched = NoResult
          /\ tasks'[t].pc = "done"
               => /\ tasks'[t].outcome = "cancelled"
                  /\ pageCount' = pageCount
                  /\ fetchCount' = fetchCount]_vars

\* C34 witness: cancellation has been signalled; a task that had waited for
\* a slot was woken and ended without a fetch, handing its slot to the next
\* waiter, while another task is in its delay.
C34_Witness ==
  /\ started /\ stopFlag
  /\ \E t \in TaskIds : tasks[t].pc = "granted"
  /\ \E t \in TaskIds : tasks[t].pc = "delay"
  /\ \E t \in TaskIds :
       /\ Len(grantOrder) > MAX_CONCURRENT + 1
       /\ grantOrder[MAX_CONCURRENT + 1] = t
       /\ tasks[t].pc = "done"
       /\ tasks[t].outcome = "cancelled"
       /\ tasks[t].fetched = NoResult

\* C32: a session all of whose fetches complete eventually resolves,
\* whatever the seed list and the fetch outcomes; in particular when three
\* depth-0 pages succeed and each has links.
C32_SessionResolves == started ~> Resolved

\* C33: once the stop predicate is true, the session eventually resolves:
\* every task that waits for a slot is woken, sees the cancellation and
\* finishes.
C33_StoppedSessionResolves == (started /\ stopFlag) ~> Resolved

\* C40: two URLs that differ only in their fragment, in tracking
\* parameters, in the order of the other parameters or in one trailing
\* slash have the same normalized form, and a string that does not parse as
\* a URL is returned unchanged.
C40_SamePageSameForm ==
  Len(pair) = 4 =>
    /\ pair[1].ok => pair[3] = pair[4]
    /\ ~pair[1].ok => pair[3] = pair[1]

\* the lines of the page log (none while the file does not exist)
LogLines(d) == IF d["pages.jsonl"] = Absent THEN <<>> ELSE d["pages.jsonl"].lines

\* a page task's appendFile completes successfully in this step
PageAppended == pqPc = "append" /\ pqTask.type = "page" /\ appended' = appended + 1

\* C39: the page log is append-only: no step of the store changes or
\* removes a line that is in the log or removes the log, and a step adds a
\* line -- exactly one, at the end -- exactly when a page task's append
\* succeeds.
C39_PageLogAppendOnly ==
  [][/\ (disk["pages.jsonl"] # Absent => disk'["pages.jsonl"] # Absent)
     /\ IF PageAppended
        THEN /\ Len(LogLines(disk')) = Len(LogLines(disk)) + 1
             /\ SubSeq(LogLines(disk'), 1, Len(LogLines(disk))) = LogLines(disk)
        ELSE LogLines(disk') = LogLines(disk)]_vars

\* the calls that have an atomic write of the meta file in progress
MetaWriters == {o \in Owners : aw[o] # NoFrame /\ aw[o].filePath = "meta.json"}

\* C38: no two atomic writes of the meta file are in progress at the same
\* time, whoever issues them (initialize, the queue processor, flush), also
\* when a save is issued while initialize is still running.
C38_OneMetaWriteAtATime == Cardinality(MetaWriters) <= 1

\* the files of the run directory that hold a serialized meta object: the
\* meta file, and its temp file while an atomic write is under way
MetaOnDisk ==
  {f \in {"meta.json", "meta.json.tmp"} : disk[f] # Absent /\ disk[f].kind = "meta"}

\* C37: at every point, also when the process is killed there, the
\* pageCount of the meta object on disk -- in the meta file or in its temp
\* file -- is at most the number of complete lines in the page log.
C37_MetaCountWithinLog ==
  \A f \in MetaOnDisk : disk[f].pageCount <= Len(LogLines(disk))

\* C37 witness: the process was killed while a meta object with pageCount 2
\* was on disk, two page lines being in the log.
C37_Witness ==
  /\ crashed
  /\ \E f \in MetaOnDisk : disk[f].pageCount = 2
  /\ Len(LogLines(disk)) = 2

\* the store's flush has completed: a flush has run to its end and none is
\* under way
FlushCompleted == flushDone >= 1 /\ flushPc = "idle"

\* C31: the process exits only after the store's flush has completed,
\* however the shutdown handler's finalize and the main flow's finalize
\* interleave.
C31_ExitAfterFlush == Exited => FlushCompleted
====
